---- MODULE Spec2Model ----
(***************************************************************************)
(* Model of the protocol normalisation layer of hapi: the                  *)
(* AppServerEventConverter class, which turns the notifications of the     *)
(* agent backend (legacy codex/event/* form and structured thread/turn/    *)
(* item form) into canonical events, keeping five per-instance maps.       *)
(***************************************************************************)
EXTENDS Integers, Sequences, FiniteSets, TLC

(***************************************************************************)
(* JavaScript values.  A value is a record tagged with its typeof kind;    *)
(* objects carry a function from property names to values, arrays a        *)
(* sequence of values.                                                     *)
(***************************************************************************)
Undef == [k |-> "undefined"]
Null == [k |-> "null"]
Str(s) == [k |-> "string", v |-> s]
Bool(b) == [k |-> "boolean", v |-> b]
Num(n) == [k |-> "number", v |-> n, finite |-> TRUE]
NaN == [k |-> "number", v |-> 0, finite |-> FALSE]
Obj(o) == [k |-> "object", v |-> o]
Arr(a) == [k |-> "array", v |-> a]
EmptyObj == <<>>

\* value ?? other
Q(value, other) == IF value.k \in {"undefined", "null"} THEN other ELSE value

\* record.name (property read; a missing property reads as undefined)
Get(record, name) ==
    IF record.k = "object" /\ name \in DOMAIN record.v THEN record.v[name] ELSE Undef

\* { ...a, ...b }
Spread(a, b) == b @@ a

\* ...(value ? { name: value } : {}) for a value that is a string or null
Opt(name, value) == IF value # Null THEN name :> value ELSE EmptyObj

asRecord(value) == IF value.k \in {"object", "array"} THEN value ELSE Null

asString(value) == IF value.k = "string" /\ Len(value.v) > 0 THEN value ELSE Null

asBoolean(value) == IF value.k = "boolean" THEN value ELSE Null

asNumber(value) == IF value.k = "number" /\ value.finite THEN value ELSE Null

extractItemId(params) ==
    LET direct == asString(Q(Get(params, "itemId"), Q(Get(params, "item_id"), Get(params, "id"))))
        item == asRecord(Get(params, "item"))
    IN  IF direct # Null THEN direct
        ELSE IF item # Null
             THEN asString(Q(Get(item, "id"), Q(Get(item, "itemId"), Get(item, "item_id"))))
             ELSE Null

extractItem(params) == Q(asRecord(Get(params, "item")), params)

\* String.prototype.toLowerCase on the strings the model feeds in
toLowerCase(s) ==
    CASE s = "Cancelled" -> "cancelled"
      [] s = "agentMessage" -> "agentmessage"
      [] s = "commandExecution" -> "commandexecution"
      [] s = "fileChange" -> "filechange"
      [] s = "Reasoning" -> "reasoning"
      [] OTHER -> s

\* replace(/[\s_-]/g, '') on the strings the model feeds in
stripSeparators(s) ==
    CASE s = "agent_message" -> "agentmessage"
      [] s = "command_execution" -> "commandexecution"
      [] s = "file_change" -> "filechange"
      [] OTHER -> s

normalizeItemType(value) ==
    LET raw == asString(value)
    IN  IF raw = Null THEN Null ELSE Str(stripSeparators(toLowerCase(raw.v)))

RECURSIVE join(_)
join(parts) ==
    IF Len(parts) = 1 THEN parts[1].v
    ELSE parts[1].v \o " " \o join(Tail(parts))

extractCommand(value) ==
    IF value.k = "string" THEN value
    ELSE IF value.k = "array"
         THEN LET parts == SelectSeq(value.v, LAMBDA part : part.k = "string")
              IN  IF Len(parts) > 0 THEN Str(join(parts)) ELSE Null
         ELSE Null

RECURSIVE foldChanges(_, _)
foldChanges(entries, changes) ==
    IF entries = <<>> THEN changes
    ELSE LET entryRecord == asRecord(Head(entries))
             path == IF entryRecord = Null THEN Null
                     ELSE asString(Q(Get(entryRecord, "path"), Q(Get(entryRecord, "file"),
                              Q(Get(entryRecord, "filePath"), Get(entryRecord, "file_path")))))
         IN  foldChanges(Tail(entries),
                         IF path # Null THEN Spread(changes, path.v :> entryRecord) ELSE changes)

extractChanges(value) ==
    LET record == asRecord(value)
    IN  IF record # Null THEN record
        ELSE IF value.k = "array"
             THEN LET changes == foldChanges(value.v, EmptyObj)
                  IN  IF DOMAIN changes # {} THEN Obj(changes) ELSE Null
             ELSE Null

\* JSON.parse(rawMessage), then the parsed.detail string if there is one
parsedDetail(s) ==
    CASE s = "{\"detail\":\"quota\"}" -> Str("quota")
      [] OTHER -> Null

(***************************************************************************)
(* Map<string, V> as a function from the keys present to their values.     *)
(***************************************************************************)
MapGet(m, key) == IF key \in DOMAIN m THEN m[key] ELSE Undef
MapSet(m, key, value) == (key :> value) @@ m
MapDelete(m, key) == [x \in (DOMAIN m) \ {key} |-> m[x]]

\* the result of one handleNotification call: the events returned and the
\* converter's maps afterwards
Ret(events, st) == [events |-> events, st |-> st]

\* { type: name }
Ev(name) == "type" :> Str(name)

\* msg.turn_id ?? msg.turnId, msg.call_id ?? msg.callId
msgTurnId(msg) == asString(Q(Get(msg, "turn_id"), Get(msg, "turnId")))
msgCallId(msg) == asString(Q(Get(msg, "call_id"), Get(msg, "callId")))

(***************************************************************************)
(* handleNotification, legacy form: the branches on msg.type of a          *)
(* codex/event/* notification.                                             *)
(***************************************************************************)
legacyTaskStarted(st, msg) ==
    LET turnId == msgTurnId(msg)
        contextWindow == asNumber(Q(Get(msg, "model_context_window"), Get(msg, "modelContextWindow")))
        collabMode == asString(Q(Get(msg, "collaboration_mode_kind"), Get(msg, "collaborationModeKind")))
    IN  Ret(<<Spread(Spread(Spread(Ev("task_started"), Opt("turn_id", turnId)),
                            IF contextWindow # Null /\ contextWindow.v # 0
                            THEN "model_context_window" :> contextWindow ELSE EmptyObj),
                     Opt("collaboration_mode_kind", collabMode))>>, st)

legacyError(st, msg) ==
    LET rawMessage == asString(Get(msg, "message"))
        detail == IF rawMessage # Null THEN parsedDetail(rawMessage.v) ELSE Null
        errorMessage == IF detail # Null THEN detail ELSE rawMessage
        errorInfo == asString(Q(Get(msg, "codex_error_info"), Get(msg, "codexErrorInfo")))
    IN  IF errorMessage # Null
        THEN Ret(<<Spread(Spread(Ev("task_failed"), "error" :> errorMessage),
                          Opt("codex_error_info", errorInfo))>>, st)
        ELSE Ret(<<>>, st)

legacyExecCommandBegin(st, msg) ==
    LET callId == msgCallId(msg)
        command == extractCommand(Q(Get(msg, "command"), Get(msg, "cmd")))
        cwd == asString(Get(msg, "cwd"))
        autoApproved == asBoolean(Q(Get(msg, "auto_approved"), Get(msg, "autoApproved")))
        meta == Spread(Spread(IF command # Null /\ command.v # "" THEN "command" :> command ELSE EmptyObj,
                              Opt("cwd", cwd)),
                       Opt("auto_approved", autoApproved))
    IN  IF callId # Null
        THEN Ret(<<Spread(Spread(Ev("exec_command_begin"), "call_id" :> callId), meta)>>,
                 [st EXCEPT !.commandMeta = MapSet(@, callId.v, meta)])
        ELSE Ret(<<>>, st)

\* legacyExecCommandEnd spreading the exit code by its truth, as it does the
\* strings: 0 is left out
legacyExecCommandEnd_truthyExit(st, msg) ==
    LET callId == msgCallId(msg)
        meta == IF callId # Null /\ callId.v \in DOMAIN st.commandMeta
                THEN st.commandMeta[callId.v] ELSE EmptyObj
        output == asString(Q(Get(msg, "output"), Get(msg, "stdout")))
        stderr == asString(Get(msg, "stderr"))
        error == asString(Get(msg, "error"))
        exitCode == asNumber(Q(Get(msg, "exit_code"), Get(msg, "exitCode")))
    IN  IF callId # Null
        THEN Ret(<<Spread(Spread(Spread(Spread(Spread(
                        Spread(Ev("exec_command_end"), "call_id" :> callId), meta),
                        Opt("output", output)), Opt("stderr", stderr)), Opt("error", error)),
                        IF exitCode # Null /\ exitCode.v # 0 THEN "exit_code" :> exitCode
                        ELSE EmptyObj)>>,
                 [st EXCEPT !.commandMeta = MapDelete(@, callId.v),
                            !.commandOutputBuffers = MapDelete(@, callId.v)])
        ELSE Ret(<<>>, st)

legacyExecCommandEnd(st, msg) ==
    LET callId == msgCallId(msg)
        meta == IF callId # Null /\ callId.v \in DOMAIN st.commandMeta
                THEN st.commandMeta[callId.v] ELSE EmptyObj
        output == asString(Q(Get(msg, "output"), Get(msg, "stdout")))
        stderr == asString(Get(msg, "stderr"))
        error == asString(Get(msg, "error"))
        exitCode == asNumber(Q(Get(msg, "exit_code"), Get(msg, "exitCode")))
    IN  IF callId # Null
        THEN Ret(<<Spread(Spread(Spread(Spread(Spread(
                        Spread(Ev("exec_command_end"), "call_id" :> callId), meta),
                        Opt("output", output)), Opt("stderr", stderr)), Opt("error", error)),
                        Opt("exit_code", exitCode))>>,
                 [st EXCEPT !.commandMeta = MapDelete(@, callId.v),
                            !.commandOutputBuffers = MapDelete(@, callId.v)])
        ELSE Ret(<<>>, st)

\* legacyPatchApplyBegin storing the metadata without pushing the begin event
legacyPatchApplyBegin_silent(st, msg) ==
    LET callId == msgCallId(msg)
        changes == extractChanges(Get(msg, "changes"))
        autoApproved == asBoolean(Q(Get(msg, "auto_approved"), Get(msg, "autoApproved")))
        meta == Spread(Opt("changes", changes), Opt("auto_approved", autoApproved))
    IN  IF callId # Null
        THEN Ret(<<>>, [st EXCEPT !.fileChangeMeta = MapSet(@, callId.v, meta)])
        ELSE Ret(<<>>, st)

legacyPatchApplyBegin(st, msg) ==
    LET callId == msgCallId(msg)
        changes == extractChanges(Get(msg, "changes"))
        autoApproved == asBoolean(Q(Get(msg, "auto_approved"), Get(msg, "autoApproved")))
        meta == Spread(Opt("changes", changes), Opt("auto_approved", autoApproved))
    IN  IF callId # Null
        THEN Ret(<<Spread(Spread(Ev("patch_apply_begin"), "call_id" :> callId), meta)>>,
                 [st EXCEPT !.fileChangeMeta = MapSet(@, callId.v, meta)])
        ELSE Ret(<<>>, st)

\* legacyPatchApplyEnd with success defaulting to true
legacyPatchApplyEnd_defaultTrue(st, msg) ==
    LET callId == msgCallId(msg)
        meta == IF callId # Null /\ callId.v \in DOMAIN st.fileChangeMeta
                THEN st.fileChangeMeta[callId.v] ELSE EmptyObj
        stdout == asString(Q(Get(msg, "stdout"), Get(msg, "output")))
        stderr == asString(Get(msg, "stderr"))
        success == asBoolean(Q(Get(msg, "success"), Q(Get(msg, "ok"), Get(msg, "applied"))))
    IN  IF callId # Null
        THEN Ret(<<Spread(Spread(Spread(Spread(
                        Spread(Ev("patch_apply_end"), "call_id" :> callId), meta),
                        Opt("stdout", stdout)), Opt("stderr", stderr)),
                        "success" :> Q(success, Bool(TRUE)))>>,
                 [st EXCEPT !.fileChangeMeta = MapDelete(@, callId.v)])
        ELSE Ret(<<>>, st)

legacyPatchApplyEnd(st, msg) ==
    LET callId == msgCallId(msg)
        meta == IF callId # Null /\ callId.v \in DOMAIN st.fileChangeMeta
                THEN st.fileChangeMeta[callId.v] ELSE EmptyObj
        stdout == asString(Q(Get(msg, "stdout"), Get(msg, "output")))
        stderr == asString(Get(msg, "stderr"))
        success == asBoolean(Q(Get(msg, "success"), Q(Get(msg, "ok"), Get(msg, "applied"))))
    IN  IF callId # Null
        THEN Ret(<<Spread(Spread(Spread(Spread(
                        Spread(Ev("patch_apply_end"), "call_id" :> callId), meta),
                        Opt("stdout", stdout)), Opt("stderr", stderr)),
                        "success" :> Q(success, Bool(FALSE)))>>,
                 [st EXCEPT !.fileChangeMeta = MapDelete(@, callId.v)])
        ELSE Ret(<<>>, st)

\* one event carrying a required non-empty string field, or nothing
emitIfString(st, name, field, value) ==
    IF value # Null THEN Ret(<<Spread(Ev(name), field :> value)>>, st) ELSE Ret(<<>>, st)

handleCodexEvent(st, paramsRecord) ==
    LET msg == asRecord(Get(paramsRecord, "msg"))
        msgType == IF msg = Null THEN Null ELSE asString(Get(msg, "type"))
        t == IF msgType = Null THEN "" ELSE msgType.v
    IN  CASE msg = Null \/ msgType = Null -> Ret(<<>>, st)
          [] t = "thread_started" ->
                emitIfString(st, "thread_started", "thread_id",
                             asString(Q(Get(msg, "thread_id"), Get(msg, "threadId"))))
          [] t = "task_started" -> legacyTaskStarted(st, msg)
          [] t = "task_complete" ->
                Ret(<<Spread(Ev("task_complete"), Opt("turn_id", msgTurnId(msg)))>>, st)
          [] t = "task_failed" ->
                Ret(<<Spread(Spread(Ev("task_failed"), Opt("turn_id", msgTurnId(msg))),
                             Opt("error", asString(Q(Get(msg, "error"), Get(msg, "message")))))>>, st)
          [] t = "turn_aborted" ->
                Ret(<<Spread(Ev("turn_aborted"), Opt("turn_id", msgTurnId(msg)))>>, st)
          [] t = "error" -> legacyError(st, msg)
          [] t = "agent_message" ->
                emitIfString(st, "agent_message", "message", asString(Get(msg, "message")))
          [] t = "agent_reasoning" ->
                emitIfString(st, "agent_reasoning", "text", asString(Get(msg, "text")))
          [] t = "agent_reasoning_delta" ->
                emitIfString(st, "agent_reasoning_delta", "delta", asString(Get(msg, "delta")))
          [] t = "agent_reasoning_section_break" ->
                Ret(<<Ev("agent_reasoning_section_break")>>, st)
          [] t = "user_message" -> Ret(<<>>, st)
          [] t = "exec_command_begin" -> legacyExecCommandBegin(st, msg)
          [] t = "exec_command_end" -> legacyExecCommandEnd(st, msg)
          [] t = "exec_approval_request" ->
                IF msgCallId(msg) # Null
                THEN Ret(<<Spread(Spread(Ev("exec_approval_request"), "call_id" :> msgCallId(msg)),
                                  msg.v)>>, st)
                ELSE Ret(<<>>, st)
          [] t = "patch_apply_begin" -> legacyPatchApplyBegin(st, msg)
          [] t = "patch_apply_end" -> legacyPatchApplyEnd(st, msg)
          [] t = "turn_diff" ->
                emitIfString(st, "turn_diff", "unified_diff",
                             asString(Q(Get(msg, "unified_diff"), Q(Get(msg, "unifiedDiff"), Get(msg, "diff")))))
          [] t = "token_count" -> Ret(<<Spread(Ev("token_count"), msg.v)>>, st)
          [] OTHER -> Ret(<<>>, st)

(***************************************************************************)
(* handleNotification, structured form.                                    *)
(***************************************************************************)
\* turn.turnId ?? turn.turn_id ?? turn.id
turnIdOf(turn) == asString(Q(Get(turn, "turnId"), Q(Get(turn, "turn_id"), Get(turn, "id"))))

\* paramsRecord.delta ?? paramsRecord.text ?? paramsRecord.message
deltaOf(paramsRecord) ==
    asString(Q(Get(paramsRecord, "delta"), Q(Get(paramsRecord, "text"), Get(paramsRecord, "message"))))

\* item.text ?? item.message ?? item.content
inlineText(item) ==
    asString(Q(Get(item, "text"), Q(Get(item, "message"), Get(item, "content"))))

handleThreadStarted(st, paramsRecord) ==
    LET thread == Q(asRecord(Get(paramsRecord, "thread")), paramsRecord)
    IN  emitIfString(st, "thread_started", "thread_id",
                     asString(Q(Get(thread, "threadId"), Q(Get(thread, "thread_id"), Get(thread, "id")))))

handleTurnStarted(st, paramsRecord) ==
    LET turn == Q(asRecord(Get(paramsRecord, "turn")), paramsRecord)
    IN  Ret(<<Spread(Ev("task_started"), Opt("turn_id", turnIdOf(turn)))>>, st)

\* handleTurnCompleted comparing the status as given, without toLowerCase()
handleTurnCompleted_caseSensitive(st, paramsRecord) ==
    LET turn == Q(asRecord(Get(paramsRecord, "turn")), paramsRecord)
        statusRaw == asString(Q(Get(paramsRecord, "status"), Get(turn, "status")))
        status == IF statusRaw = Null THEN "" ELSE statusRaw.v
        turnId == turnIdOf(turn)
        errorMessage == asString(Q(Get(paramsRecord, "error"),
                                   Q(Get(paramsRecord, "message"), Get(paramsRecord, "reason"))))
    IN  IF status \in {"interrupted", "cancelled", "canceled"}
        THEN Ret(<<Spread(Ev("turn_aborted"), Opt("turn_id", turnId))>>, st)
        ELSE IF status \in {"failed", "error"}
        THEN Ret(<<Spread(Spread(Ev("task_failed"), Opt("turn_id", turnId)),
                          Opt("error", errorMessage))>>, st)
        ELSE Ret(<<Spread(Ev("task_complete"), Opt("turn_id", turnId))>>, st)

handleTurnCompleted(st, paramsRecord) ==
    LET turn == Q(asRecord(Get(paramsRecord, "turn")), paramsRecord)
        statusRaw == asString(Q(Get(paramsRecord, "status"), Get(turn, "status")))
        status == IF statusRaw = Null THEN "" ELSE toLowerCase(statusRaw.v)
        turnId == turnIdOf(turn)
        errorMessage == asString(Q(Get(paramsRecord, "error"),
                                   Q(Get(paramsRecord, "message"), Get(paramsRecord, "reason"))))
    IN  IF status \in {"interrupted", "cancelled", "canceled"}
        THEN Ret(<<Spread(Ev("turn_aborted"), Opt("turn_id", turnId))>>, st)
        ELSE IF status \in {"failed", "error"}
        THEN Ret(<<Spread(Spread(Ev("task_failed"), Opt("turn_id", turnId)),
                          Opt("error", errorMessage))>>, st)
        ELSE Ret(<<Spread(Ev("task_complete"), Opt("turn_id", turnId))>>, st)

handleTokenUsage(st, paramsRecord) ==
    LET info == Q(asRecord(Q(Get(paramsRecord, "tokenUsage"),
                             Q(Get(paramsRecord, "token_usage"), paramsRecord))), Obj(EmptyObj))
    IN  Ret(<<Spread(Ev("token_count"), "info" :> info)>>, st)

handleError(st, paramsRecord) ==
    LET willRetry == Q(asBoolean(Q(Get(paramsRecord, "will_retry"), Get(paramsRecord, "willRetry"))),
                       Bool(FALSE))
        nested == asRecord(Get(paramsRecord, "error"))
        message == Q(asString(Get(paramsRecord, "message")),
                     IF nested = Null THEN Null ELSE asString(Get(nested, "message")))
    IN  IF willRetry.v THEN Ret(<<>>, st)
        ELSE emitIfString(st, "task_failed", "error", message)

\* handleAgentMessageDelta storing the delta in place of prev + delta
handleAgentMessageDelta_overwrite(st, paramsRecord) ==
    LET itemId == extractItemId(paramsRecord)
        delta == deltaOf(paramsRecord)
    IN  IF itemId # Null /\ delta # Null
        THEN Ret(<<>>, [st EXCEPT !.agentMessageBuffers = MapSet(@, itemId.v, delta)])
        ELSE Ret(<<>>, st)

handleAgentMessageDelta(st, paramsRecord) ==
    LET itemId == extractItemId(paramsRecord)
        delta == deltaOf(paramsRecord)
    IN  IF itemId # Null /\ delta # Null
        THEN LET prev == Q(MapGet(st.agentMessageBuffers, itemId.v), Str(""))
             IN  Ret(<<>>, [st EXCEPT !.agentMessageBuffers = MapSet(@, itemId.v, Str(prev.v \o delta.v))])
        ELSE Ret(<<>>, st)

handleReasoningTextDelta(st, paramsRecord) ==
    LET itemId == Q(extractItemId(paramsRecord), Str("reasoning"))
        delta == deltaOf(paramsRecord)
    IN  IF delta # Null
        THEN LET prev == Q(MapGet(st.reasoningBuffers, itemId.v), Str(""))
             IN  Ret(<<Spread(Ev("agent_reasoning_delta"), "delta" :> delta)>>,
                     [st EXCEPT !.reasoningBuffers = MapSet(@, itemId.v, Str(prev.v \o delta.v))])
        ELSE Ret(<<>>, st)

handleCommandOutputDelta(st, paramsRecord) ==
    LET itemId == extractItemId(paramsRecord)
        delta == asString(Q(Get(paramsRecord, "delta"), Q(Get(paramsRecord, "text"),
                            Q(Get(paramsRecord, "output"), Get(paramsRecord, "stdout")))))
    IN  IF itemId # Null /\ delta # Null
        THEN LET prev == Q(MapGet(st.commandOutputBuffers, itemId.v), Str(""))
             IN  Ret(<<>>, [st EXCEPT !.commandOutputBuffers = MapSet(@, itemId.v, Str(prev.v \o delta.v))])
        ELSE Ret(<<>>, st)

\* a string that is truthy: neither undefined, null nor empty
truthy(text) == text.k = "string" /\ text.v # ""

\* itemAgentMessage without the agentMessageBuffers.delete(itemId)
itemAgentMessage_keepBuffer(st, method, item, itemId) ==
    IF method = "item/completed"
    THEN LET text == Q(inlineText(item), MapGet(st.agentMessageBuffers, itemId))
         IN  Ret(IF truthy(text) THEN <<Spread(Ev("agent_message"), "message" :> text)>> ELSE <<>>, st)
    ELSE Ret(<<>>, st)

\* itemAgentMessage reading the buffer before the inline text
itemAgentMessage_bufferFirst(st, method, item, itemId) ==
    IF method = "item/completed"
    THEN LET text == Q(MapGet(st.agentMessageBuffers, itemId), inlineText(item))
         IN  Ret(IF truthy(text) THEN <<Spread(Ev("agent_message"), "message" :> text)>> ELSE <<>>,
                 [st EXCEPT !.agentMessageBuffers = MapDelete(@, itemId)])
    ELSE Ret(<<>>, st)

itemAgentMessage(st, method, item, itemId) ==
    IF method = "item/completed"
    THEN LET text == Q(inlineText(item), MapGet(st.agentMessageBuffers, itemId))
         IN  Ret(IF truthy(text) THEN <<Spread(Ev("agent_message"), "message" :> text)>> ELSE <<>>,
                 [st EXCEPT !.agentMessageBuffers = MapDelete(@, itemId)])
    ELSE Ret(<<>>, st)

itemReasoning(st, method, item, itemId) ==
    IF method = "item/completed"
    THEN LET text == Q(inlineText(item), MapGet(st.reasoningBuffers, itemId))
         IN  Ret(IF truthy(text) THEN <<Spread(Ev("agent_reasoning"), "text" :> text)>> ELSE <<>>,
                 [st EXCEPT !.reasoningBuffers = MapDelete(@, itemId)])
    ELSE Ret(<<>>, st)

itemCommandExecution(st, method, item, itemId) ==
    IF method = "item/started"
    THEN LET command == extractCommand(Q(Get(item, "command"), Q(Get(item, "cmd"), Get(item, "args"))))
             cwd == asString(Q(Get(item, "cwd"), Q(Get(item, "workingDirectory"), Get(item, "working_directory"))))
             autoApproved == asBoolean(Q(Get(item, "autoApproved"), Get(item, "auto_approved")))
             meta == Spread(Spread(IF command # Null /\ command.v # "" THEN "command" :> command ELSE EmptyObj,
                                   Opt("cwd", cwd)),
                            Opt("auto_approved", autoApproved))
         IN  Ret(<<Spread(Spread(Ev("exec_command_begin"), "call_id" :> Str(itemId)), meta)>>,
                 [st EXCEPT !.commandMeta = MapSet(@, itemId, meta)])
    ELSE LET meta == IF itemId \in DOMAIN st.commandMeta THEN st.commandMeta[itemId] ELSE EmptyObj
             output == Q(asString(Q(Get(item, "output"), Q(Get(item, "result"), Get(item, "stdout")))),
                         MapGet(st.commandOutputBuffers, itemId))
             stderr == asString(Get(item, "stderr"))
             error == asString(Get(item, "error"))
             exitCode == asNumber(Q(Get(item, "exitCode"), Q(Get(item, "exit_code"), Get(item, "exitcode"))))
             status == asString(Get(item, "status"))
         IN  Ret(<<Spread(Spread(Spread(Spread(Spread(Spread(
                        Spread(Ev("exec_command_end"), "call_id" :> Str(itemId)), meta),
                        IF truthy(output) THEN "output" :> output ELSE EmptyObj),
                        Opt("stderr", stderr)), Opt("error", error)),
                        Opt("exit_code", exitCode)), Opt("status", status))>>,
                 [st EXCEPT !.commandMeta = MapDelete(@, itemId),
                            !.commandOutputBuffers = MapDelete(@, itemId)])

itemFileChange(st, method, item, itemId) ==
    IF method = "item/started"
    THEN LET changes == extractChanges(Q(Get(item, "changes"), Q(Get(item, "change"), Get(item, "diff"))))
             autoApproved == asBoolean(Q(Get(item, "autoApproved"), Get(item, "auto_approved")))
             meta == Spread(Opt("changes", changes), Opt("auto_approved", autoApproved))
         IN  Ret(<<Spread(Spread(Ev("patch_apply_begin"), "call_id" :> Str(itemId)), meta)>>,
                 [st EXCEPT !.fileChangeMeta = MapSet(@, itemId, meta)])
    ELSE LET meta == IF itemId \in DOMAIN st.fileChangeMeta THEN st.fileChangeMeta[itemId] ELSE EmptyObj
             stdout == asString(Q(Get(item, "stdout"), Get(item, "output")))
             stderr == asString(Get(item, "stderr"))
             success == asBoolean(Q(Get(item, "success"), Q(Get(item, "ok"), Q(Get(item, "applied"),
                                     Bool(Get(item, "status") = Str("completed"))))))
         IN  Ret(<<Spread(Spread(Spread(Spread(
                        Spread(Ev("patch_apply_end"), "call_id" :> Str(itemId)), meta),
                        Opt("stdout", stdout)), Opt("stderr", stderr)),
                        "success" :> Q(success, Bool(FALSE)))>>,
                 [st EXCEPT !.fileChangeMeta = MapDelete(@, itemId)])

handleItem(st, method, paramsRecord) ==
    LET item == extractItem(paramsRecord)
        itemType == normalizeItemType(Q(Get(item, "type"), Q(Get(item, "itemType"), Get(item, "kind"))))
        itemId == Q(extractItemId(paramsRecord),
                    asString(Q(Get(item, "id"), Q(Get(item, "itemId"), Get(item, "item_id")))))
    IN  IF itemType = Null \/ itemId = Null THEN Ret(<<>>, st)
        ELSE CASE itemType.v = "agentmessage" -> itemAgentMessage(st, method, item, itemId.v)
               [] itemType.v = "reasoning" -> itemReasoning(st, method, item, itemId.v)
               [] itemType.v = "commandexecution" -> itemCommandExecution(st, method, item, itemId.v)
               [] itemType.v = "filechange" -> itemFileChange(st, method, item, itemId.v)
               [] OTHER -> Ret(<<>>, st)

\* the method strings the model feeds in that start with 'codex/event/'
CodexEventMethods ==
    {"codex/event/thread_started", "codex/event/task_started", "codex/event/task_complete",
     "codex/event/task_failed", "codex/event/turn_aborted", "codex/event/error",
     "codex/event/agent_message", "codex/event/agent_reasoning",
     "codex/event/agent_reasoning_delta", "codex/event/agent_reasoning_section_break",
     "codex/event/user_message", "codex/event/exec_command_begin",
     "codex/event/exec_command_end", "codex/event/exec_approval_request",
     "codex/event/patch_apply_begin", "codex/event/patch_apply_end",
     "codex/event/turn_diff", "codex/event/token_count", "codex/event/mcp_startup_update",
     "codex/event/background_event"}

\* method.startsWith('codex/event/')
startsWithCodexEvent(method) == method \in CodexEventMethods

handleNotification(st, method, params) ==
    LET paramsRecord == Q(asRecord(params), Obj(EmptyObj))
    IN  CASE startsWithCodexEvent(method) -> handleCodexEvent(st, paramsRecord)
          [] method \in {"thread/started", "thread/resumed"} -> handleThreadStarted(st, paramsRecord)
          [] method = "turn/started" -> handleTurnStarted(st, paramsRecord)
          [] method = "turn/completed" -> handleTurnCompleted(st, paramsRecord)
          [] method = "turn/diff/updated" ->
                emitIfString(st, "turn_diff", "unified_diff",
                             asString(Q(Get(paramsRecord, "diff"),
                                        Q(Get(paramsRecord, "unified_diff"), Get(paramsRecord, "unifiedDiff")))))
          [] method = "thread/tokenUsage/updated" -> handleTokenUsage(st, paramsRecord)
          [] method = "error" -> handleError(st, paramsRecord)
          [] method = "item/agentMessage/delta" -> handleAgentMessageDelta(st, paramsRecord)
          [] method = "item/reasoning/textDelta" -> handleReasoningTextDelta(st, paramsRecord)
          [] method = "item/reasoning/summaryPartAdded" ->
                Ret(<<Ev("agent_reasoning_section_break")>>, st)
          [] method = "item/commandExecution/outputDelta" -> handleCommandOutputDelta(st, paramsRecord)
          [] method \in {"item/started", "item/completed"} -> handleItem(st, method, paramsRecord)
          [] OTHER -> Ret(<<>>, st)

\* reset() without commandOutputBuffers.clear()
reset_keepOutput(st) ==
    [agentMessageBuffers |-> EmptyObj, reasoningBuffers |-> EmptyObj,
     commandOutputBuffers |-> st.commandOutputBuffers, commandMeta |-> EmptyObj,
     fileChangeMeta |-> EmptyObj]

\* reset() without reasoningBuffers.clear()
reset_keepReasoning(st) ==
    [agentMessageBuffers |-> EmptyObj, reasoningBuffers |-> st.reasoningBuffers,
     commandOutputBuffers |-> EmptyObj, commandMeta |-> EmptyObj, fileChangeMeta |-> EmptyObj]

\* reset(): clear() on each of the five maps
reset(st) ==
    [agentMessageBuffers |-> EmptyObj, reasoningBuffers |-> EmptyObj,
     commandOutputBuffers |-> EmptyObj, commandMeta |-> EmptyObj, fileChangeMeta |-> EmptyObj]

(***************************************************************************)
(* The notifications fed to the converter.  Each is described by a datum   *)
(* (what the backend reports) and encoded in one of the two protocol       *)
(* shapes; ill-formed notifications are listed as such.                    *)
(***************************************************************************)
MaxSteps == 3

Ids == {"c1", "c2"}

\* name: value, left out when the value is undefined
Field(name, value) == IF value = Undef THEN EmptyObj ELSE name :> value

JsonDetail == "{\"detail\":\"quota\"}"

TurnStatuses ==
    {Undef, Str("completed"), Str("interrupted"), Str("cancelled"), Str("canceled"),
     Str("Cancelled"), Str("failed"), Str("error")}

StatelessData ==
    {[op |-> "thread_started", id |-> "th1"]}
    \cup [op : {"task_started"}, turn : {"t1"}, window : {Undef, Num(200)}]
    \cup [op : {"turn_completed"}, turn : {"t1"}, status : TurnStatuses, error : {Undef}]
    \cup [op : {"turn_completed"}, turn : {"t1"}, status : {Str("completed"), Str("failed")},
           error : {Str("boom")}]
    \cup [op : {"error"}, message : {Str("boom")}, willRetry : {Undef, Bool(TRUE)}]
    \cup [op : {"error"}, message : {Undef, Str(JsonDetail)}, willRetry : {Undef}]
    \cup {[op |-> "turn_diff", diff |-> "d1"], [op |-> "token_count", total |-> 7]}

DeltaData ==
    [op : {"agent_delta"}, id : {"c1"}, text : {"a", "b"}, key : {"itemId"}]
    \cup {[op |-> "agent_delta", id |-> "c2", text |-> "a", key |-> "itemId"]}
    \cup [op : {"reasoning_delta"}, id : {"c1"}, text : {"a", "b"}, key : {"itemId"}]
    \cup {[op |-> "reasoning_delta", id |-> "c2", text |-> "a", key |-> "none"]}
    \cup [op : {"output_delta"}, id : {"c1"}, text : {"a", "b"}, key : {"itemId", "call_id"}]
    \cup {[op |-> "output_delta", id |-> "c2", text |-> "a", key |-> "itemId"]}

ItemData ==
    [op : {"agent_done", "reasoning_done"}, id : {"c1"}, inline : {Undef, Str("m")}]
    \cup [op : {"agent_done", "reasoning_done"}, id : {"c2"}, inline : {Undef}]
    \cup {[op |-> "exec_begin", id |-> "c1", command |-> Str("ls")],
          [op |-> "exec_begin", id |-> "c2", command |-> Arr(<<Str("git"), Str("status")>>)]}
    \cup [op : {"exec_end"}, id : {"c1"}, output : {Undef, Str("out")}, exit : {Num(0)}]
    \cup {[op |-> "exec_end", id |-> "c2", output |-> Undef, exit |-> Undef]}
    \cup {[op |-> "patch_begin", id |-> "c1", changes |-> Obj("f.txt" :> Str("add"))]}
    \cup [op : {"patch_end"}, id : {"c1"}, success : {Undef, Bool(TRUE)}]

MalformedCases ==
    {"unknown_method", "unknown_msg_type", "no_msg", "no_msg_type", "non_object_delta",
     "non_object_turn_started", "non_object_item", "unknown_item_type", "item_without_id"}

MalformedData == [op : {"malformed"}, case : MalformedCases]

\* the data that both protocol shapes can carry
PairedData == StatelessData \cup ItemData \cup {d \in DeltaData : d.op = "reasoning_delta"}

\* the outcome a turn status stands for, as the dispatch table words it
Outcome(status) ==
    IF status \in {Str("interrupted"), Str("cancelled")} THEN "turn_aborted"
    ELSE IF status \in {Str("failed"), Str("error")} THEN "task_failed"
    ELSE "task_complete"

Note(method, fields) == [method |-> method, params |-> Obj(fields)]

LegacyNote(type, fields) ==
    Note("codex/event/" \o type, "msg" :> Obj(Spread("type" :> Str(type), fields)))

\* the legacy form: method codex/event/<type>, payload under msg
Legacy(d) ==
    CASE d.op = "thread_started" -> LegacyNote("thread_started", "thread_id" :> Str(d.id))
      [] d.op = "task_started" ->
            LegacyNote("task_started",
                       Spread("turn_id" :> Str(d.turn), Field("model_context_window", d.window)))
      [] d.op = "turn_completed" ->
            LegacyNote(Outcome(d.status),
                       Spread("turn_id" :> Str(d.turn),
                              IF Outcome(d.status) = "task_failed" THEN Field("error", d.error)
                              ELSE EmptyObj))
      [] d.op = "error" ->
            LegacyNote("error", Spread(Field("message", d.message), Field("will_retry", d.willRetry)))
      [] d.op = "turn_diff" -> LegacyNote("turn_diff", "unified_diff" :> Str(d.diff))
      [] d.op = "token_count" -> LegacyNote("token_count", "info" :> Obj("total" :> Num(d.total)))
      [] d.op = "reasoning_delta" -> LegacyNote("agent_reasoning_delta", "delta" :> Str(d.text))
      [] d.op = "agent_done" -> LegacyNote("agent_message", Field("message", d.inline))
      [] d.op = "reasoning_done" -> LegacyNote("agent_reasoning", Field("text", d.inline))
      [] d.op = "exec_begin" ->
            LegacyNote("exec_command_begin", Spread("call_id" :> Str(d.id), "command" :> d.command))
      [] d.op = "exec_end" ->
            LegacyNote("exec_command_end",
                       Spread(Spread("call_id" :> Str(d.id), Field("output", d.output)),
                              Field("exit_code", d.exit)))
      [] d.op = "patch_begin" ->
            LegacyNote("patch_apply_begin", Spread("call_id" :> Str(d.id), "changes" :> d.changes))
      [] d.op = "patch_end" ->
            LegacyNote("patch_apply_end", Spread("call_id" :> Str(d.id), Field("success", d.success)))

ItemNote(method, type, id, fields) ==
    Note(method, "item" :> Obj(Spread(Spread("type" :> Str(type), "id" :> Str(id)), fields)))

\* the structured form: thread/*, turn/*, item/* and error methods
Structured(d) ==
    CASE d.op = "thread_started" -> Note("thread/started", "thread" :> Obj("id" :> Str(d.id)))
      [] d.op = "task_started" ->
            Note("turn/started",
                 Spread("turn" :> Obj("id" :> Str(d.turn)), Field("modelContextWindow", d.window)))
      [] d.op = "turn_completed" ->
            Note("turn/completed",
                 Spread("turn" :> Obj(Spread("id" :> Str(d.turn), Field("status", d.status))),
                        Field("error", d.error)))
      [] d.op = "error" ->
            Note("error", Spread("error" :> Obj(Field("message", d.message)),
                                 Field("willRetry", d.willRetry)))
      [] d.op = "turn_diff" -> Note("turn/diff/updated", "diff" :> Str(d.diff))
      [] d.op = "token_count" ->
            Note("thread/tokenUsage/updated", "tokenUsage" :> Obj("total" :> Num(d.total)))
      [] d.op = "agent_delta" ->
            Note("item/agentMessage/delta", Spread(d.key :> Str(d.id), "delta" :> Str(d.text)))
      [] d.op = "reasoning_delta" ->
            Note("item/reasoning/textDelta",
                 Spread(IF d.key = "none" THEN EmptyObj ELSE d.key :> Str(d.id), "delta" :> Str(d.text)))
      [] d.op = "output_delta" ->
            Note("item/commandExecution/outputDelta", Spread(d.key :> Str(d.id), "delta" :> Str(d.text)))
      [] d.op = "agent_done" -> ItemNote("item/completed", "agentMessage", d.id, Field("text", d.inline))
      [] d.op = "reasoning_done" -> ItemNote("item/completed", "reasoning", d.id, Field("text", d.inline))
      [] d.op = "exec_begin" -> ItemNote("item/started", "commandExecution", d.id, "command" :> d.command)
      [] d.op = "exec_end" ->
            ItemNote("item/completed", "commandExecution", d.id,
                     Spread(Field("output", d.output), Field("exitCode", d.exit)))
      [] d.op = "patch_begin" -> ItemNote("item/started", "fileChange", d.id, "changes" :> d.changes)
      [] d.op = "patch_end" -> ItemNote("item/completed", "fileChange", d.id, Field("success", d.success))

\* the unrecognized and ill-formed notifications
Malformed(d) ==
    CASE d.case = "unknown_method" -> Note("thread/archived", "threadId" :> Str("th1"))
      [] d.case = "unknown_msg_type" ->
            Note("codex/event/background_event", "msg" :> Obj("type" :> Str("background_event")))
      [] d.case = "no_msg" -> Note("codex/event/agent_message", "message" :> Str("m"))
      [] d.case = "no_msg_type" ->
            Note("codex/event/agent_message", "msg" :> Obj("message" :> Str("m")))
      [] d.case = "non_object_delta" -> [method |-> "item/agentMessage/delta", params |-> Str("a")]
      [] d.case = "non_object_turn_started" -> [method |-> "turn/started", params |-> Null]
      [] d.case = "non_object_item" -> [method |-> "item/completed", params |-> Num(1)]
      [] d.case = "unknown_item_type" -> ItemNote("item/completed", "webSearch", "c1", EmptyObj)
      [] d.case = "item_without_id" ->
            Note("item/completed", "item" :> Obj(Spread("type" :> Str("agentMessage"), "text" :> Str("m"))))

Encode(d, shape) ==
    CASE shape = "legacy" -> Legacy(d)
      [] shape = "structured" -> Structured(d)
      [] shape = "raw" -> Malformed(d)

\* the calls the model makes: a datum and the shape it is sent in
Calls ==
    [d : PairedData, shape : {"legacy", "structured"}]
    \cup [d : DeltaData, shape : {"structured"}]
    \cup [d : MalformedData, shape : {"raw"}]

(***************************************************************************)
(* One converter instance.  The five maps are its fields; the other        *)
(* variables record the last call and what an observer of the inputs and   *)
(* of the emitted events has seen so far.                                  *)
(***************************************************************************)
VARIABLES
    agentMessageBuffers,   \* Map item id -> accumulated message text
    reasoningBuffers,      \* Map item id -> accumulated reasoning text
    commandOutputBuffers,  \* Map call id -> accumulated command output
    commandMeta,           \* Map call id -> metadata stored at exec begin
    fileChangeMeta,        \* Map call id -> metadata stored at patch begin
    lastCall,              \* the last call: its datum and shape, or reset
    lastEvents,            \* events returned by the last handleNotification
    steps,                 \* number of calls made
    pending,               \* per buffer kind and item id: the deltas addressed to it, concatenated
    execTrack,             \* per call id begun: its command and the deltas naming it by call_id
    inOpen,                \* per kind and call id: begin minus end notifications received
    outOpen,               \* per kind and call id: begin minus end events emitted
    inputOrdered,          \* no end notification arrived without an open begin
    outputOrdered          \* no end event was emitted without an open begin event

maps == <<agentMessageBuffers, reasoningBuffers, commandOutputBuffers, commandMeta, fileChangeMeta>>

observed == <<pending, execTrack, inOpen, outOpen, inputOrdered, outputOrdered>>

convVars == <<agentMessageBuffers, reasoningBuffers, commandOutputBuffers, commandMeta, fileChangeMeta,
              lastCall, lastEvents, steps,
              pending, execTrack, inOpen, outOpen, inputOrdered, outputOrdered>>

(***************************************************************************)
(* One run of opencodeLoop and the session it drives: the options it was   *)
(* called with, the OpencodeSession it constructs, the message queue       *)
(* objects, the two transports, and what was sent and emitted.             *)
(***************************************************************************)
VARIABLES
    opts,        \* the OpencodeLoopOptions opencodeLoop was called with
    pc,          \* position of opencodeLoop
    session,     \* the OpencodeSession object, Null before its construction
    found,       \* the ids opencodeLoop called onSessionFound with, in order
    launched,    \* the launcher calls made for this session, in order, with the queue each was given
    state,       \* state of the orchestrator
    running,     \* the transports whose launcher is running
    switching,   \* the mode switch in progress
    queues,      \* the MessageQueue2 objects: queue id -> payloads queued
    reachable,   \* per transport: its send succeeds
    sent,        \* the payloads a transport accepted, in order, with the transport
    drainCall,   \* the drain call in progress
    enqueued,    \* the payloads the caller enqueued, in order
    emitted,     \* the events emitted to the subscribers, in order, with their transport
    turn,        \* a turn is in flight
    stopped      \* how the last transport ended: "no", "abort", "exit" or "crash"

loopVars == <<opts, pc, session, found, launched, state, running, switching, queues, reachable,
              sent, drainCall, enqueued, emitted, turn, stopped>>

(***************************************************************************)
(* One call of streamToStdin: the position of its loop, the result the     *)
(* stream's iterator has ready for it, the abort signal and the stdin it   *)
(* writes to.                                                              *)
(***************************************************************************)
VARIABLES
    pumpPc,      \* position of streamToStdin
    ready,       \* the iterator result the loop has not yet taken, or Null
    yielded,     \* the messages the loop has taken from the stream, in order
    abort,       \* the abort signal: "none" (not passed), "idle" or "aborted"
    written,     \* the chunks written to stdin, in order
    ended        \* number of stdin.end() calls

pumpVars == <<pumpPc, ready, yielded, abort, written, ended>>

(***************************************************************************)
(* Two converter objects side by side: the Map objects allocated, the      *)
(* fields of each converter, and the calls made on each.                   *)
(***************************************************************************)
VARIABLES
    heap,        \* the Map objects allocated: address -> contents
    instances,   \* the converter objects: name -> the address each of its five fields holds
    history,     \* per converter: the calls made on it, in order
    pairCall,    \* the last call made on either converter, and on which
    pairEvents   \* the events that call returned

pairVars == <<heap, instances, history, pairCall, pairEvents>>

(***************************************************************************)
(* One useInputHistory hook: the sessionStorage entry it reads and writes, *)
(* its two refs, and what an observer of its calls has seen.               *)
(***************************************************************************)
VARIABLES
    inputStorage,  \* sessionStorage['hapi:inputHistory']: whether an item is set, and the array it holds
    indexRef,      \* indexRef.current: -1 or the position browsed, counted from 0
    draftRef,      \* draftRef.current
    inputCall,     \* the last call on the hook, its argument and what it returned
    pushes,        \* number of push calls made
    pushed,        \* the trimmed non-empty texts pushed so far, in order
    browseText     \* the text passed to the up() that started browsing

inputVars == <<inputStorage, indexRef, draftRef, inputCall, pushes, pushed, browseText>>

(***************************************************************************)
(* One FileBrowser component: its six state cells, the browseDirectory     *)
(* requests that have not been answered yet, and what an observer of its   *)
(* handlers has seen.                                                      *)
(***************************************************************************)
VARIABLES
    currentPath,    \* useState(initialPath ?? '')
    dirEntries,     \* the entries state: the DirectoryEntry[] of the last answer taken
    isLoading,      \* useState(false)
    loadError,      \* the error state: null or a message
    showHidden,     \* useState(false)
    selectedIndex,  \* useState(-1)
    outstanding,    \* the paths of the loadDirectory calls awaiting their answer, in request order
    loads,          \* number of loadDirectory calls made
    lastRequested,  \* the path of the most recent loadDirectory call
    browserCall     \* the last handler run, the entry it passed to handleEntryClick, the request sent or answered

browserVars == <<currentPath, dirEntries, isLoading, loadError, showHidden, selectedIndex,
                 outstanding, loads, lastRequested, browserCall>>

vars == <<convVars, loopVars, pumpVars, pairVars, inputVars, browserVars>>

\* the variables an operation of one component leaves alone
besidesConverter == <<loopVars, pumpVars, pairVars, inputVars, browserVars>>
besidesLoop == <<convVars, pumpVars, pairVars, inputVars, browserVars>>
besidesPump == <<convVars, loopVars, pairVars, inputVars, browserVars>>
besidesPair == <<convVars, loopVars, pumpVars, inputVars, browserVars>>
besidesInput == <<convVars, loopVars, pumpVars, pairVars, browserVars>>
besidesBrowser == <<convVars, loopVars, pumpVars, pairVars, inputVars>>

\* the converter's fields as one record
Conv ==
    [agentMessageBuffers |-> agentMessageBuffers, reasoningBuffers |-> reasoningBuffers,
     commandOutputBuffers |-> commandOutputBuffers, commandMeta |-> commandMeta,
     fileChangeMeta |-> fileChangeMeta]

\* no opencodeLoop has been called
LoopOff ==
    /\ opts = Null
    /\ pc = "off"
    /\ session = Null
    /\ found = <<>>
    /\ launched = <<>>
    /\ state = "None"
    /\ running = {}
    /\ switching = Null
    /\ queues = <<>>
    /\ reachable = <<>>
    /\ sent = <<>>
    /\ drainCall = Null
    /\ enqueued = <<>>
    /\ emitted = <<>>
    /\ turn = FALSE
    /\ stopped = "no"

\* no useInputHistory hook is mounted
InputOff ==
    /\ inputStorage = [set |-> FALSE, entries |-> <<>>]
    /\ indexRef = -1
    /\ draftRef = ""
    /\ inputCall = [op |-> "none"]
    /\ pushes = 0
    /\ pushed = <<>>
    /\ browseText = ""

\* no FileBrowser has been mounted
BrowserOff ==
    /\ currentPath = ""
    /\ dirEntries = <<>>
    /\ isLoading = FALSE
    /\ loadError = Null
    /\ showHidden = FALSE
    /\ selectedIndex = -1
    /\ outstanding = <<>>
    /\ loads = 0
    /\ lastRequested = ""
    /\ browserCall = [op |-> "none"]

\* no pair of converters has been constructed
PairOff ==
    /\ heap = <<>>
    /\ instances = <<>>
    /\ history = <<>>
    /\ pairCall = [op |-> "none"]
    /\ pairEvents = <<>>

\* no streamToStdin has been called
PumpOff ==
    /\ pumpPc = "off"
    /\ ready = Null
    /\ yielded = <<>>
    /\ abort = "none"
    /\ written = <<>>
    /\ ended = 0

CallKinds == {"exec", "patch"}
NoneOpen == [kind \in CallKinds |-> [id \in Ids |-> 0]]
NoPending == [agent |-> EmptyObj, reasoning |-> EmptyObj, output |-> EmptyObj]

\* a new converter: its five maps are empty
NewConverter ==
    /\ agentMessageBuffers = EmptyObj
    /\ reasoningBuffers = EmptyObj
    /\ commandOutputBuffers = EmptyObj
    /\ commandMeta = EmptyObj
    /\ fileChangeMeta = EmptyObj
    /\ lastCall = [op |-> "none"]
    /\ lastEvents = <<>>
    /\ steps = 0
    /\ pending = NoPending
    /\ execTrack = EmptyObj
    /\ inOpen = NoneOpen
    /\ outOpen = NoneOpen
    /\ inputOrdered = TRUE
    /\ outputOrdered = TRUE

Init == NewConverter /\ LoopOff /\ PumpOff /\ PairOff /\ InputOff /\ BrowserOff

(***************************************************************************)
(* What the observer records about a call, from the datum sent.            *)
(***************************************************************************)
\* the buffer kind a datum's deltas accumulate in
BufferKind(d) ==
    CASE d.op \in {"agent_delta", "agent_done"} -> "agent"
      [] d.op \in {"reasoning_delta", "reasoning_done"} -> "reasoning"
      [] d.op \in {"output_delta", "exec_end"} -> "output"

\* a delta addressed to an item by its item id
IsAddressedDelta(c) ==
    c.d.op \in {"agent_delta", "reasoning_delta", "output_delta"}
        /\ c.shape = "structured" /\ c.d.key = "itemId"

\* the completed/end notification of an item: it carries the item's id in
\* the structured form, and for a command also in the legacy form
IsTerminalFor(c) ==
    \/ c.d.op \in {"agent_done", "reasoning_done"} /\ c.shape = "structured"
    \/ c.d.op = "exec_end"

PendingAfter(c) ==
    IF IsAddressedDelta(c)
    THEN [pending EXCEPT ![BufferKind(c.d)] =
            MapSet(@, c.d.id, (IF c.d.id \in DOMAIN @ THEN @[c.d.id] ELSE "") \o c.d.text)]
    ELSE IF IsTerminalFor(c)
    THEN [pending EXCEPT ![BufferKind(c.d)] = MapDelete(@, c.d.id)]
    ELSE pending

ExecTrackAfter(c) ==
    IF c.d.op = "exec_begin" THEN MapSet(execTrack, c.d.id, [command |-> c.d.command, out |-> ""])
    ELSE IF c.d.op = "exec_end" THEN MapDelete(execTrack, c.d.id)
    ELSE IF c.d.op = "output_delta" /\ c.d.id \in DOMAIN execTrack
    THEN IF c.d.key = "call_id"
         THEN [execTrack EXCEPT ![c.d.id].out = @ \o c.d.text]
         ELSE MapDelete(execTrack, c.d.id)
    ELSE execTrack

\* begin/end notifications received, per kind and call id
InDelta(c, kind, id) ==
    IF c.d.op = kind \o "_begin" /\ c.d.id = id THEN 1
    ELSE IF c.d.op = kind \o "_end" /\ c.d.id = id THEN -1 ELSE 0

\* begin/end events in a list of emitted events, per kind and call id
EventKindName(kind) == IF kind = "exec" THEN "exec_command" ELSE "patch_apply"

IsEvent(e, name, id) == e["type"] = Str(name) /\ "call_id" \in DOMAIN e /\ e["call_id"] = Str(id)

RECURSIVE OpenAfter(_, _, _, _)
OpenAfter(events, kind, id, open) ==
    IF events = <<>> THEN open
    ELSE OpenAfter(Tail(events), kind, id,
                   IF IsEvent(Head(events), EventKindName(kind) \o "_begin", id) THEN open + 1
                   ELSE IF IsEvent(Head(events), EventKindName(kind) \o "_end", id) THEN open - 1
                   ELSE open)

\* an end event in the list comes when no begin event is open for it
RECURSIVE EndsUnopened(_, _, _, _)
EndsUnopened(events, kind, id, open) ==
    IF events = <<>> THEN FALSE
    ELSE \/ IsEvent(Head(events), EventKindName(kind) \o "_end", id) /\ open <= 0
         \/ EndsUnopened(Tail(events), kind, id, OpenAfter(<<Head(events)>>, kind, id, open))

(***************************************************************************)
(* The operations.                                                         *)
(***************************************************************************)
HandleNotification(c) ==
    \E n \in {Encode(c.d, c.shape)} : \E r \in {handleNotification(Conv, n.method, n.params)} :
        /\ steps < MaxSteps
        /\ agentMessageBuffers' = r.st.agentMessageBuffers
        /\ reasoningBuffers' = r.st.reasoningBuffers
        /\ commandOutputBuffers' = r.st.commandOutputBuffers
        /\ commandMeta' = r.st.commandMeta
        /\ fileChangeMeta' = r.st.fileChangeMeta
        /\ lastCall' = [op |-> "handleNotification", d |-> c.d, shape |-> c.shape]
        /\ lastEvents' = r.events
        /\ steps' = steps + 1
        /\ pending' = PendingAfter(c)
        /\ execTrack' = ExecTrackAfter(c)
        /\ inOpen' = [kind \in CallKinds |-> [id \in Ids |-> inOpen[kind][id] + InDelta(c, kind, id)]]
        /\ inputOrdered' = (inputOrdered /\ \A kind \in CallKinds, id \in Ids :
                                ~(InDelta(c, kind, id) = -1 /\ inOpen[kind][id] <= 0))
        /\ outOpen' = [kind \in CallKinds |->
                          [id \in Ids |-> OpenAfter(r.events, kind, id, outOpen[kind][id])]]
        /\ outputOrdered' = (outputOrdered /\ \A kind \in CallKinds, id \in Ids :
                                ~EndsUnopened(r.events, kind, id, outOpen[kind][id]))
        /\ UNCHANGED besidesConverter

Reset ==
    \E st \in {reset(Conv)} :
        /\ steps < MaxSteps
        /\ agentMessageBuffers' = st.agentMessageBuffers
        /\ reasoningBuffers' = st.reasoningBuffers
        /\ commandOutputBuffers' = st.commandOutputBuffers
        /\ commandMeta' = st.commandMeta
        /\ fileChangeMeta' = st.fileChangeMeta
        /\ lastCall' = [op |-> "reset",
                        cleared |-> Cardinality(DOMAIN agentMessageBuffers)
                                    + Cardinality(DOMAIN reasoningBuffers)
                                    + Cardinality(DOMAIN commandOutputBuffers)
                                    + Cardinality(DOMAIN commandMeta)
                                    + Cardinality(DOMAIN fileChangeMeta)]
        /\ lastEvents' = <<>>
        /\ steps' = steps + 1
        /\ pending' = NoPending
        /\ execTrack' = EmptyObj
        /\ UNCHANGED <<inOpen, outOpen, inputOrdered, outputOrdered>>
        /\ UNCHANGED besidesConverter

Next == (\E c \in Calls : HandleNotification(c)) \/ Reset

Spec == Init /\ [][Next]_vars

(***************************************************************************)
(* Properties.                                                             *)
(***************************************************************************)
\* the events handleNotification would return for a datum sent in a shape,
\* from the converter's current maps
EventsFor(d, shape) ==
    LET n == Encode(d, shape) IN handleNotification(Conv, n.method, n.params).events

Handled(call) == call.op = "handleNotification"

\* a structured item/completed that carries no inline text or output
CompletedNoInline(call) ==
    /\ Handled(call)
    /\ call.shape = "structured"
    /\ \/ call.d.op \in {"agent_done", "reasoning_done"} /\ call.d.inline = Undef
       \/ call.d.op = "exec_end" /\ call.d.output = Undef

\* the concatenation of the deltas addressed so far to the item of datum d
PendingText(d) ==
    IF d.id \in DOMAIN pending[BufferKind(d)] THEN pending[BufferKind(d)][d.id] ELSE ""

\* the events carry exactly the given text as the terminal text of datum d
CarriesText(events, d, text) ==
    CASE d.op = "agent_done" ->
            events = IF text = "" THEN <<>>
                     ELSE <<[type |-> Str("agent_message"), message |-> Str(text)]>>
      [] d.op = "reasoning_done" ->
            events = IF text = "" THEN <<>>
                     ELSE <<[type |-> Str("agent_reasoning"), text |-> Str(text)]>>
      [] d.op = "exec_end" ->
            /\ Len(events) = 1
            /\ events[1]["type"] = Str("exec_command_end")
            /\ events[1]["call_id"] = Str(d.id)
            /\ IF text = "" THEN "output" \notin DOMAIN events[1]
               ELSE "output" \in DOMAIN events[1] /\ events[1]["output"] = Str(text)

\* C1: for every datum both shapes can carry, the legacy and the structured
\* notification produce the same events from the same buffer state.
C1_ShapeTransparency ==
    \A d \in PairedData : EventsFor(d, "legacy") = EventsFor(d, "structured")

\* C2: a completed notification without inline text emits the concatenation,
\* in delivery order, of exactly the deltas addressed to that item id.
C2_DeltaConcatenation ==
    [][CompletedNoInline(lastCall') =>
           CarriesText(lastEvents', lastCall'.d, PendingText(lastCall'.d))]_vars

C2_Witness ==
    /\ lastCall = [op |-> "handleNotification", shape |-> "structured",
                   d |-> [op |-> "agent_done", id |-> "c1", inline |-> Undef]]
    /\ lastEvents = <<[type |-> Str("agent_message"), message |-> Str("ab")]>>

\* the command string an exec begin datum stands for
CommandText(command) == IF command.k = "string" THEN command ELSE Str("git status")

\* C3: exec begin for c with command X, output deltas naming c by call_id,
\* then exec end for c without inline output: the begin event carries c and
\* X, the end event carries c, X and the concatenated deltas, and c is then
\* in neither commandMeta nor commandOutputBuffers.
C3_ExecScenario ==
    [][/\ (Handled(lastCall') /\ lastCall'.d.op = "exec_begin") =>
              lastEvents' = <<[type |-> Str("exec_command_begin"), call_id |-> Str(lastCall'.d.id),
                               command |-> CommandText(lastCall'.d.command)]>>
       /\ (Handled(lastCall') /\ lastCall'.d.op = "exec_end" /\ lastCall'.d.output = Undef
              /\ lastCall'.d.id \in DOMAIN execTrack) =>
              /\ Len(lastEvents') = 1
              /\ lastEvents'[1]["type"] = Str("exec_command_end")
              /\ lastEvents'[1]["call_id"] = Str(lastCall'.d.id)
              /\ lastEvents'[1]["command"] = CommandText(execTrack[lastCall'.d.id].command)
              /\ execTrack[lastCall'.d.id].out # "" =>
                    /\ "output" \in DOMAIN lastEvents'[1]
                    /\ lastEvents'[1]["output"] = Str(execTrack[lastCall'.d.id].out)
              /\ lastCall'.d.id \notin DOMAIN commandMeta'
              /\ lastCall'.d.id \notin DOMAIN commandOutputBuffers']_vars

\* the id a terminal event is for: the call_id of an exec/patch end event,
\* the item id of the completed item for a message or reasoning event (the
\* legacy agent_message and agent_reasoning notifications carry no id)
TerminalEvent ==
    /\ Handled(lastCall)
    /\ lastEvents # <<>>
    /\ \/ lastEvents[1]["type"] \in {Str("exec_command_end"), Str("patch_apply_end")}
       \/ lastEvents[1]["type"] \in {Str("agent_message"), Str("agent_reasoning")}
             /\ lastCall.shape = "structured"

TerminalId == lastCall.d.id

\* C4 as stated: after a terminal event for an id, the id is a key of none
\* of the five maps.
C4_NoLeakAnyMap ==
    TerminalEvent =>
        /\ TerminalId \notin DOMAIN agentMessageBuffers
        /\ TerminalId \notin DOMAIN reasoningBuffers
        /\ TerminalId \notin DOMAIN commandOutputBuffers
        /\ TerminalId \notin DOMAIN commandMeta
        /\ TerminalId \notin DOMAIN fileChangeMeta

\* C4 (amended): after a terminal event for an id, the id is a key of none
\* of the maps of that event's kind: agentMessageBuffers for agent_message,
\* reasoningBuffers for agent_reasoning, commandMeta and commandOutputBuffers
\* for exec_command_end, fileChangeMeta for patch_apply_end.
C4_NoLeakOwnMaps ==
    TerminalEvent =>
        CASE lastEvents[1]["type"] = Str("agent_message") ->
                TerminalId \notin DOMAIN agentMessageBuffers
          [] lastEvents[1]["type"] = Str("agent_reasoning") ->
                TerminalId \notin DOMAIN reasoningBuffers
          [] lastEvents[1]["type"] = Str("exec_command_end") ->
                /\ lastEvents[1]["call_id"] = Str(TerminalId)
                /\ TerminalId \notin DOMAIN commandMeta
                /\ TerminalId \notin DOMAIN commandOutputBuffers
          [] lastEvents[1]["type"] = Str("patch_apply_end") ->
                /\ lastEvents[1]["call_id"] = Str(TerminalId)
                /\ TerminalId \notin DOMAIN fileChangeMeta

C4_Witness ==
    /\ TerminalEvent
    /\ lastCall.shape = "structured"
    /\ lastEvents = <<[type |-> Str("exec_command_end"), call_id |-> Str("c1"),
                       command |-> Str("ls"), output |-> Str("a"), exit_code |-> Num(0)]>>
    /\ commandMeta = EmptyObj /\ commandOutputBuffers = EmptyObj

\* C5: after reset() all five maps are empty, and a completed notification
\* without inline text would emit no text accumulated before the reset.
C5_ResetEmpties ==
    lastCall.op = "reset" =>
        /\ agentMessageBuffers = EmptyObj
        /\ reasoningBuffers = EmptyObj
        /\ commandOutputBuffers = EmptyObj
        /\ commandMeta = EmptyObj
        /\ fileChangeMeta = EmptyObj
        /\ \A c \in Calls :
              CompletedNoInline([op |-> "handleNotification", d |-> c.d, shape |-> c.shape]) =>
                  CarriesText(EventsFor(c.d, c.shape), c.d, "")

C5_Witness == lastCall.op = "reset" /\ lastCall.cleared >= 2

\* C6: an unrecognized or ill-formed notification returns no event and
\* leaves the five maps unchanged.
C6_MalformedDropped ==
    [][(Handled(lastCall') /\ lastCall'.d.op = "malformed") =>
           lastEvents' = <<>> /\ maps' = maps]_vars

\* the event type the claim assigns to a turn status
ClaimedOutcome(status) ==
    IF status \in {Str("interrupted"), Str("cancelled")} THEN "turn_aborted"
    ELSE IF status \in {Str("failed"), Str("error")} THEN "task_failed"
    ELSE "task_complete"

\* the same with the status compared without regard to case and the
\* spelling canceled counted as cancelled
AmendedOutcome(status) ==
    IF status \in {Str("interrupted"), Str("cancelled"), Str("Cancelled"), Str("canceled")}
    THEN "turn_aborted"
    ELSE IF status \in {Str("failed"), Str("error")} THEN "task_failed"
    ELSE "task_complete"

TurnCompletedCall ==
    Handled(lastCall) /\ lastCall.shape = "structured" /\ lastCall.d.op = "turn_completed"

\* C7 as stated: turn/completed yields exactly one event: turn_aborted for
\* status interrupted or cancelled, task_failed for failed or error,
\* task_complete otherwise.
C7_TurnCompletedAsStated ==
    TurnCompletedCall =>
        /\ Len(lastEvents) = 1
        /\ lastEvents[1]["type"] = Str(ClaimedOutcome(lastCall.d.status))

\* C7 (amended): turn/completed yields exactly one event, chosen by its
\* status alone, compared case-insensitively: turn_aborted for interrupted,
\* cancelled or canceled, task_failed for failed or error, task_complete
\* otherwise; it carries the turn id.
C7_TurnCompleted ==
    TurnCompletedCall =>
        /\ Len(lastEvents) = 1
        /\ lastEvents[1]["type"] = Str(AmendedOutcome(lastCall.d.status))
        /\ lastEvents[1]["turn_id"] = Str(lastCall.d.turn)

C7_Witness ==
    /\ TurnCompletedCall
    /\ lastCall.d.status = Str("cancelled")
    /\ lastEvents = <<[type |-> Str("turn_aborted"), turn_id |-> Str("t1")]>>

\* C8: an error notification marked will-retry produces no event and
\* changes no converter state, in either protocol shape.
C8_RetrySuppressed ==
    [][(Handled(lastCall') /\ lastCall'.d.op = "error" /\ lastCall'.d.willRetry = Bool(TRUE)) =>
           lastEvents' = <<>> /\ maps' = maps]_vars

\* C9: an error notification not marked will-retry yields exactly one
\* task_failed event, in either shape, whatever the payload carries.
C9_TerminalErrorSurfaced ==
    (Handled(lastCall) /\ lastCall.d.op = "error" /\ lastCall.d.willRetry # Bool(TRUE)) =>
        /\ Len(lastEvents) = 1
        /\ lastEvents[1]["type"] = Str("task_failed")

\* C10 as stated: in the emitted stream every exec/patch end event is
\* preceded by its begin event, with at most one end per begin.
C10_EndsFollowBegins == outputOrdered

\* C10 (amended): the converter emits one begin event per begin
\* notification and one end event per end notification, in arrival order,
\* so every end event is preceded by its begin event (at most one end per
\* begin) whenever the notifications received are so ordered.
C10_EndsFollowBeginsOfInput ==
    /\ outOpen = inOpen
    /\ inputOrdered => outputOrdered

C10_Witness ==
    /\ inputOrdered
    /\ Handled(lastCall)
    /\ lastCall.d.op = "patch_end"
    /\ lastEvents # <<>>
    /\ lastEvents[1]["type"] = Str("patch_apply_end")
    /\ outOpen["patch"]["c1"] = 0

(***************************************************************************)
(* opencodeLoop (cli/src/opencode/loop.ts) and the session it drives.      *)
(*                                                                         *)
(* loop.ts constructs the OpencodeSession, announces a resumed session id  *)
(* and hands the session and the two launchers to runLocalRemoteSession.   *)
(* OpencodeSession, MessageQueue2, runLocalRemoteSession and the launchers *)
(* are imported by loop.ts; their behaviour below is the one the design    *)
(* document prescribes (sections 4.3 to 4.5, 5 and 7).                     *)
(***************************************************************************)
MaxPayloads == 2
MaxEvents == 2
MaxLaunches == 2

Transports == {"local", "remote"}
QueueIds == {"q0", "q1"}
ModeState(t) == IF t = "local" THEN "Local" ELSE "Remote"
Active == IF state = "Local" THEN "local" ELSE "remote"

\* the options a caller passes; api, session (client), path, onModeChange and
\* onSessionReady are passed through unread and are left out
OptsSet ==
    {[startingMode |-> c[1], resumeSessionId |-> c[2], startedBy |-> c[3], permissionMode |-> c[4],
      messageQueue |-> "q0", hookServer |-> "hookServer", hookUrl |-> "hookUrl"] :
        c \in {<<Undef, Undef, Undef, Undef>>,
               <<Undef, Str("s1"), Str("runner"), Undef>>,
               <<Str("local"), Str(""), Undef, Str("default")>>,
               <<Str("local"), Str("s1"), Undef, Undef>>,
               <<Str("remote"), Undef, Str("runner"), Str("default")>>,
               <<Str("remote"), Str(""), Undef, Undef>>}}

\* sessionOptions with a message queue of the session's own
sessionOptions_ownQueue(o) ==
    [sessionId |-> Q(o.resumeSessionId, Null),
     messageQueue |-> "q1",
     mode |-> Q(o.startingMode, Str("local")),
     startedBy |-> Q(o.startedBy, Str("terminal")),
     startingMode |-> Q(o.startingMode, Str("local")),
     permissionMode |-> Q(o.permissionMode, Str("yolo"))]

\* the argument of new OpencodeSession(...)
sessionOptions(o) ==
    [sessionId |-> Q(o.resumeSessionId, Null),
     messageQueue |-> o.messageQueue,
     mode |-> Q(o.startingMode, Str("local")),
     startedBy |-> Q(o.startedBy, Str("terminal")),
     startingMode |-> Q(o.startingMode, Str("local")),
     permissionMode |-> Q(o.permissionMode, Str("yolo"))]

\* new OpencodeSession(options): the object keeps what it was given
OpencodeSession(options) == options

\* session.onSessionFound(id): the session takes the id
onSessionFound(sess, id) == [sess EXCEPT !.sessionId = id]

\* if (opts.resumeSessionId) session.onSessionFound(opts.resumeSessionId)
announceResumed(o, sess) ==
    IF truthy(o.resumeSessionId)
    THEN [session |-> onSessionFound(sess, o.resumeSessionId), calls |-> <<o.resumeSessionId>>]
    ELSE [session |-> sess, calls |-> <<>>]

\* runLocal: (instance) => opencodeLocalLauncher(instance, {hookServer, hookUrl})
runLocal(o, instance) ==
    [launcher |-> "opencodeLocalLauncher", transport |-> "local",
     messageQueue |-> instance.messageQueue, sessionId |-> instance.sessionId,
     hookServer |-> o.hookServer, hookUrl |-> o.hookUrl]

\* runRemote: (instance) => opencodeRemoteLauncher(instance)
runRemote(o, instance) ==
    [launcher |-> "opencodeRemoteLauncher", transport |-> "remote",
     messageQueue |-> instance.messageQueue, sessionId |-> instance.sessionId]

\* the argument of runLocalRemoteSession(...)
runOptions(o, sess) ==
    [session |-> sess, startingMode |-> o.startingMode, logTag |-> "opencode-loop",
     runLocal |-> runLocal(o, sess), runRemote |-> runRemote(o, sess)]

\* the launcher call runLocalRemoteSession makes for a mode
launch(run, t) == IF t = "local" THEN run.runLocal ELSE run.runRemote

\* the queue object the launchers of this run were given
LauncherQueue == launched[Len(launched)].messageQueue

\* enqueue(payload): the payload goes to the end of the queue
enqueue(q, payload) == Append(q, payload)

\* send(handle, payload): success or failure
send(t, payload) == reachable[t]

\* drainOne that takes the head off the queue before the sink is called
drainOne_removeFirst(q, accepted) ==
    [queue |-> Tail(q), delivered |-> IF accepted THEN <<Head(q)>> ELSE <<>>]

\* one step of drain(sink): the head is handed to the sink and removed only
\* after the sink accepted it
drainOne(q, accepted) ==
    IF accepted THEN [queue |-> Tail(q), delivered |-> <<Head(q)>>]
    ELSE [queue |-> q, delivered |-> <<>>]

\* a drain call delivers the payloads queued when it was called
newDrain(t, queue) ==
    [to |-> t, queue |-> queue, before |-> queues[queue], got |-> <<>>, status |-> "running"]

Draining == drainCall # Null /\ drainCall.status = "running"

\* stopOld that leaves the transport's read loop running
stopOld_stillReading(run, t) == run

\* switchMode, step (1): the current transport is stopped
stopOld(run, t) == run \ {t}

\* keepQueue that starts the new transport on an empty queue
keepQueue_cleared(q) == <<>>

\* switchMode, step (2): the message queue is not cleared
keepQueue(q) == q

\* switchMode, step (3): the new transport is started
startNew(run, t) == run \cup {t}

\* exitEvents that reports every process exit as a failed task
exitEvents_alwaysFailed(kind, inFlight) ==
    IF kind = "abort" THEN (IF inFlight THEN <<"turn_aborted">> ELSE <<>>) ELSE <<"task_failed">>

\* what a launcher emits when its transport ends: the turn in flight is
\* aborted; a process that exits with no turn in flight is a failed task
exitEvents(kind, inFlight) ==
    IF inFlight THEN <<"turn_aborted">>
    ELSE IF kind = "abort" THEN <<>> ELSE <<"task_failed">>

\* an event, with the transport that produced it and the launcher call it belongs to
Event(type, t) == [type |-> type, from |-> t, launch |-> Len(launched)]

LoopInit ==
    /\ NewConverter
    /\ PumpOff
    /\ PairOff
    /\ InputOff
    /\ BrowserOff
    /\ opts \in OptsSet
    /\ pc = "start"
    /\ session = Null
    /\ found = <<>>
    /\ launched = <<>>
    /\ state = "None"
    /\ running = {}
    /\ switching = Null
    /\ queues = [q \in QueueIds |-> <<>>]
    /\ reachable \in [Transports -> BOOLEAN]
    /\ sent = <<>>
    /\ drainCall = Null
    /\ enqueued = <<>>
    /\ emitted = <<>>
    /\ turn = FALSE
    /\ stopped = "no"

\* const session = new OpencodeSession({...})
NewSession ==
    /\ pc = "start"
    /\ session' = OpencodeSession(sessionOptions(opts))
    /\ pc' = "constructed"
    /\ UNCHANGED <<opts, found, launched, state, running, switching, queues, reachable, sent,
                   drainCall, enqueued, emitted, turn, stopped, besidesLoop>>

\* if (opts.resumeSessionId) { session.onSessionFound(opts.resumeSessionId) }
AnnounceResumed ==
    /\ pc = "constructed"
    /\ \E r \in {announceResumed(opts, session)} :
        /\ session' = r.session
        /\ found' = found \o r.calls
    /\ pc' = "launching"
    /\ UNCHANGED <<opts, launched, state, running, switching, queues, reachable, sent,
                   drainCall, enqueued, emitted, turn, stopped, besidesLoop>>

\* await runLocalRemoteSession({...}): the transport of the starting mode is launched
RunLocalRemoteSession ==
    /\ pc = "launching"
    /\ \E run \in {runOptions(opts, session)} : \E t \in {Q(run.startingMode, Str("local")).v} :
        /\ launched' = Append(launched, launch(run, t))
        /\ state' = ModeState(t)
        /\ running' = startNew(running, t)
    /\ pc' = "running"
    /\ UNCHANGED <<opts, session, found, switching, queues, reachable, sent,
                   drainCall, enqueued, emitted, turn, stopped, besidesLoop>>

\* the caller enqueues the next payload on the queue it passed in opts
Enqueue ==
    /\ Len(enqueued) < MaxPayloads
    /\ \E payload \in {Len(enqueued) + 1} :
        /\ queues' = [queues EXCEPT ![opts.messageQueue] = enqueue(@, payload)]
        /\ enqueued' = Append(enqueued, payload)
    /\ UNCHANGED <<opts, pc, session, found, launched, state, running, switching, reachable, sent,
                   drainCall, emitted, turn, stopped, besidesLoop>>

\* a transport becomes unreachable
Disconnect(t) ==
    /\ reachable[t]
    /\ reachable' = [reachable EXCEPT ![t] = FALSE]
    /\ UNCHANGED <<opts, pc, session, found, launched, state, running, switching, queues, sent,
                   drainCall, enqueued, emitted, turn, stopped, besidesLoop>>

\* the running launcher calls drain with its transport's send as the sink
DrainBegin ==
    /\ pc = "running"
    /\ state \in {"Local", "Remote"}
    /\ ~Draining
    /\ queues[LauncherQueue] # <<>>
    /\ drainCall' = newDrain(Active, LauncherQueue)
    /\ UNCHANGED <<opts, pc, session, found, launched, state, running, switching, queues, reachable,
                   sent, enqueued, emitted, turn, stopped, besidesLoop>>

\* drain hands the next payload to the sink; it ends when the sink fails or
\* when the payloads queued at the call are delivered, and the drain of a
\* mode switch ends the switch
DrainStep ==
    /\ Draining
    /\ \E ok \in {send(drainCall.to, Head(queues[drainCall.queue]))} :
       \E r \in {drainOne(queues[drainCall.queue], ok)} :
       \E got \in {drainCall.got \o r.delivered} :
       \E status \in {IF ~ok THEN "failed"
                      ELSE IF Len(got) = Len(drainCall.before) THEN "done" ELSE "running"} :
        /\ queues' = [queues EXCEPT ![drainCall.queue] = r.queue]
        /\ sent' = sent \o [i \in 1..Len(r.delivered) |->
                               [payload |-> r.delivered[i], to |-> drainCall.to]]
        /\ drainCall' = [drainCall EXCEPT !.got = got, !.status = status]
        /\ IF state = "Switching" /\ status # "running"
           THEN /\ state' = ModeState(switching.to)
                /\ switching' = [switching EXCEPT !.step = "done", !.drained = (status = "done")]
           ELSE UNCHANGED <<state, switching>>
    /\ UNCHANGED <<opts, pc, session, found, launched, running, reachable,
                   enqueued, emitted, turn, stopped, besidesLoop>>

\* switchMode(new) is requested
SwitchMode(new) ==
    /\ pc = "running"
    /\ state \in {"Local", "Remote"}
    /\ new # Active
    /\ ~Draining
    /\ Len(launched) < MaxLaunches
    /\ state' = "Switching"
    /\ switching' = [from |-> Active, to |-> new, step |-> "requested",
                     queued |-> queues[LauncherQueue], drained |-> FALSE]
    /\ UNCHANGED <<opts, pc, session, found, launched, running, queues, reachable, sent,
                   drainCall, enqueued, emitted, turn, stopped, besidesLoop>>

\* the new transport is found unable to start before the old one is stopped:
\* the old transport is left as it is
SwitchRefused ==
    /\ state = "Switching"
    /\ switching.step = "requested"
    /\ state' = ModeState(switching.from)
    /\ switching' = [switching EXCEPT !.step = "refused"]
    /\ UNCHANGED <<opts, pc, session, found, launched, running, queues, reachable, sent,
                   drainCall, enqueued, emitted, turn, stopped, besidesLoop>>

\* switchMode (1) and (2): stop reading from the current transport, keep the queue
SwitchStopOld ==
    /\ state = "Switching"
    /\ switching.step = "requested"
    /\ running' = stopOld(running, switching.from)
    /\ queues' = [queues EXCEPT ![LauncherQueue] = keepQueue(@)]
    /\ switching' = [switching EXCEPT !.step = "stopped"]
    /\ UNCHANGED <<opts, pc, session, found, launched, state, reachable, sent,
                   drainCall, enqueued, emitted, turn, stopped, besidesLoop>>

\* switchMode (3) and (4): start the new transport and drain the queue into it
SwitchStartNew ==
    /\ state = "Switching"
    /\ switching.step = "stopped"
    /\ \E call \in {launch(runOptions(opts, session), switching.to)} :
        /\ running' = startNew(running, switching.to)
        /\ launched' = Append(launched, call)
        /\ session' = [session EXCEPT !.mode = Str(switching.to)]
        /\ IF queues[call.messageQueue] = <<>>
           THEN /\ state' = ModeState(switching.to)
                /\ switching' = [switching EXCEPT !.step = "done", !.drained = TRUE]
                /\ UNCHANGED drainCall
           ELSE /\ switching' = [switching EXCEPT !.step = "drain"]
                /\ drainCall' = newDrain(switching.to, call.messageQueue)
                /\ UNCHANGED state
    /\ UNCHANGED <<opts, pc, found, queues, reachable, sent,
                   enqueued, emitted, turn, stopped, besidesLoop>>

\* switchMode (3) fails after the old transport was stopped: a fatal session error
SwitchStartFails ==
    /\ state = "Switching"
    /\ switching.step = "stopped"
    /\ state' = "Fatal"
    /\ switching' = [switching EXCEPT !.step = "failed"]
    /\ emitted' = Append(emitted, Event("task_failed", "session"))
    /\ turn' = FALSE
    /\ pc' = "returned"
    /\ UNCHANGED <<opts, session, found, launched, running, queues, reachable, sent,
                   drainCall, enqueued, stopped, besidesLoop>>

\* the running transport reports the start of a turn
TurnStarted(t) ==
    /\ t \in running
    /\ ~turn
    /\ Len(emitted) < MaxEvents
    /\ emitted' = Append(emitted, Event("task_started", t))
    /\ turn' = TRUE
    /\ UNCHANGED <<opts, pc, session, found, launched, state, running, switching, queues, reachable,
                   sent, drainCall, enqueued, stopped, besidesLoop>>

\* the running transport reports the end of the turn
TurnCompleted(t) ==
    /\ t \in running
    /\ turn
    /\ emitted' = Append(emitted, Event("task_complete", t))
    /\ turn' = FALSE
    /\ UNCHANGED <<opts, pc, session, found, launched, state, running, switching, queues, reachable,
                   sent, drainCall, enqueued, stopped, besidesLoop>>

\* the backend of a session started without an id reports the id it chose
SessionIdReported(t) ==
    /\ t \in running
    /\ session.sessionId = Null
    /\ session' = onSessionFound(session, Str("s2"))
    /\ UNCHANGED <<opts, pc, found, launched, state, running, switching, queues, reachable,
                   sent, drainCall, enqueued, emitted, turn, stopped, besidesLoop>>

\* the active transport ends (abort signal, clean exit or crash of the local
\* subprocess): its launcher stops pumping, emits the event for the turn in
\* flight and returns, and so does opencodeLoop
TransportEnds(kind) ==
    /\ pc = "running"
    /\ state \in {"Local", "Remote"}
    /\ kind = "abort" \/ state = "Local"
    /\ emitted' = emitted \o [i \in 1..Len(exitEvents(kind, turn)) |->
                                 Event(exitEvents(kind, turn)[i], Active)]
    /\ turn' = FALSE
    /\ running' = stopOld(running, Active)
    /\ drainCall' = IF Draining THEN [drainCall EXCEPT !.status = "failed"] ELSE drainCall
    /\ state' = "Stopped"
    /\ stopped' = kind
    /\ pc' = "returned"
    /\ UNCHANGED <<opts, session, found, launched, switching, queues, reachable,
                   sent, enqueued, besidesLoop>>

\* resume(sessionId): opencodeLoop is called again with the id of the stopped session
Resume ==
    /\ pc = "returned"
    /\ state = "Stopped"
    /\ Len(launched) < MaxLaunches
    /\ opts' = [opts EXCEPT !.resumeSessionId = IF session.sessionId = Null THEN Undef
                                                ELSE session.sessionId]
    /\ pc' = "start"
    /\ session' = Null
    /\ found' = <<>>
    /\ state' = "None"
    /\ switching' = Null
    /\ drainCall' = Null
    /\ stopped' = "no"
    /\ UNCHANGED <<launched, running, queues, reachable, sent, enqueued, emitted, turn, besidesLoop>>

LoopNext ==
    \/ NewSession
    \/ AnnounceResumed
    \/ RunLocalRemoteSession
    \/ Enqueue
    \/ \E t \in Transports : Disconnect(t)
    \/ DrainBegin
    \/ DrainStep
    \/ \E new \in Transports : SwitchMode(new)
    \/ SwitchRefused
    \/ SwitchStopOld
    \/ SwitchStartNew
    \/ SwitchStartFails
    \/ \E t \in Transports : TurnStarted(t)
    \/ \E t \in Transports : TurnCompleted(t)
    \/ \E t \in Transports : SessionIdReported(t)
    \/ \E kind \in {"abort", "exit", "crash"} : TransportEnds(kind)
    \/ Resume

LoopSpec == LoopInit /\ [][LoopNext]_vars

(***************************************************************************)
(* Properties of the loop.                                                 *)
(***************************************************************************)
Payloads(log) == [i \in 1..Len(log) |-> log[i].payload]

Delivery(payload, t) == [payload |-> payload, to |-> t]

WasSent(payload, t) == \E j \in 1..Len(sent) : sent[j] = Delivery(payload, t)

\* a mode switch has ended with its drain complete
SwitchDrained == switching # Null /\ switching.step = "done" /\ switching.drained

\* C11: the payloads queued when a switch is requested (those the old
\* transport did not take) are each delivered to the new transport once the
\* switch has drained; over the whole session the deliveries followed by the
\* queue are the payloads enqueued, in enqueue order, so none is delivered
\* twice, to two transports or out of order; and every launcher is given the
\* queue object that was passed to opencodeLoop.
C11_SwitchDelivers ==
    /\ \A i \in 1..Len(launched) : launched[i].messageQueue = opts.messageQueue
    /\ Payloads(sent) \o queues[opts.messageQueue] = enqueued
    /\ SwitchDrained =>
          \A i \in 1..Len(switching.queued) : WasSent(switching.queued[i], switching.to)

\* P1 and P2 were queued while the unreachable local transport was active
\* and the switch to remote has delivered both
C11_Witness ==
    /\ SwitchDrained
    /\ switching.from = "local"
    /\ ~reachable["local"]
    /\ switching.queued = <<1, 2>>
    /\ sent = <<Delivery(1, "remote"), Delivery(2, "remote")>>

NotAccepted(call) == SubSeq(call.before, Len(call.got) + 1, Len(call.before))

\* C13: in a drain call, running or ended, the payloads the sink accepted
\* are a duplicate-free prefix of the queue as it was at the call, each was
\* delivered to the call's transport, and the queue holds the payloads not
\* accepted, in their original order, before anything enqueued later.
C13_DrainFailure ==
    drainCall # Null =>
        /\ drainCall.got = SubSeq(drainCall.before, 1, Len(drainCall.got))
        /\ \A i, j \in 1..Len(drainCall.got) : i # j => drainCall.got[i] # drainCall.got[j]
        /\ \A i \in 1..Len(drainCall.got) : WasSent(drainCall.got[i], drainCall.to)
        /\ Len(queues[drainCall.queue]) >= Len(NotAccepted(drainCall))
        /\ SubSeq(queues[drainCall.queue], 1, Len(NotAccepted(drainCall))) = NotAccepted(drainCall)

\* the sink accepted the first of two payloads and failed on the second
C13_Witness ==
    /\ drainCall # Null
    /\ drainCall.status = "failed"
    /\ drainCall.before = <<1, 2>>
    /\ drainCall.got = <<1>>
    /\ queues[drainCall.queue] = <<2>>

\* the payloads queued when the switch was requested are still at the head of the queue
QueuedKept(sw, q) == Len(q) >= Len(sw.queued) /\ SubSeq(q, 1, Len(sw.queued)) = sw.queued

\* C14: a step in which a mode switch fails because the new transport does
\* not start leaves either the old transport running as it was, in its own
\* state, or the session in the fatal state; in both cases the payloads
\* queued at the switch request are still in the queue, in order.
C14_SwitchFailure ==
    [][(switching' # switching /\ switching' # Null /\ switching'.step \in {"refused", "failed"}) =>
          /\ \/ /\ state' = ModeState(switching'.from)
                /\ switching'.from \in running'
                /\ UNCHANGED <<running, launched, drainCall, turn, emitted>>
             \/ state' = "Fatal"
          /\ QueuedKept(switching', queues'[opts.messageQueue])
          /\ UNCHANGED <<queues, sent>>]_vars

\* the start of the new transport failed after the old one was stopped, with two payloads queued
C14_Witness ==
    /\ state = "Fatal"
    /\ switching.step = "failed"
    /\ switching.queued = <<1, 2>>
    /\ queues[opts.messageQueue] = <<1, 2>>
    /\ running = {}

(***************************************************************************)
(* streamToStdin (unnamed/part_004).  The loop body runs without           *)
(* interruption once the iterator's result has arrived; the abort signal   *)
(* is read only there.                                                     *)
(***************************************************************************)
MaxMessages == 2

\* the messages a stream yields (AsyncIterable<unknown>)
Messages == {Str("hi"), Obj("type" :> Str("user")), Undef}

\* JSON.stringify(message); undefined has no JSON text
JSONstringify(message) ==
    CASE message = Str("hi") -> Str("\"hi\"")
      [] message = Obj("type" :> Str("user")) -> Str("{\"type\":\"user\"}")
      [] message = Undef -> Undef

\* value + '\n'
plusNewline(value) == IF value = Undef THEN "undefined\n" ELSE value.v \o "\n"

\* abort?.aborted
aborted(signal) == signal = "aborted"

\* what streamToStdin does with one result of the stream's iterator: a
\* rejection leaves the function by the exception, the end of the stream and
\* an aborted signal leave the loop and call stdin.end(), and otherwise the
\* message is written as one line
streamToStdin(result, signal, out) ==
    IF result.kind = "throw" THEN [pc |-> "threw", written |-> out, ended |-> 0]
    ELSE IF result.kind = "done" \/ aborted(signal)
    THEN [pc |-> "returned", written |-> out, ended |-> 1]
    ELSE [pc |-> "await", ended |-> 0,
          written |-> Append(out, plusNewline(JSONstringify(result.value)))]

PumpInit ==
    /\ NewConverter
    /\ LoopOff
    /\ PairOff
    /\ InputOff
    /\ BrowserOff
    /\ pumpPc = "await"
    /\ ready = Null
    /\ yielded = <<>>
    /\ abort \in {"none", "idle"}
    /\ written = <<>>
    /\ ended = 0

\* the stream yields a message
StreamYields(message) ==
    /\ pumpPc = "await"
    /\ ready = Null
    /\ Len(yielded) < MaxMessages
    /\ ready' = [kind |-> "value", value |-> message]
    /\ UNCHANGED <<pumpPc, yielded, abort, written, ended, besidesPump>>

\* the stream is exhausted
StreamEnds ==
    /\ pumpPc = "await"
    /\ ready = Null
    /\ ready' = [kind |-> "done"]
    /\ UNCHANGED <<pumpPc, yielded, abort, written, ended, besidesPump>>

\* the stream's iterator rejects
StreamThrows ==
    /\ pumpPc = "await"
    /\ ready = Null
    /\ ready' = [kind |-> "throw"]
    /\ UNCHANGED <<pumpPc, yielded, abort, written, ended, besidesPump>>

\* the abort signal fires
AbortFires ==
    /\ abort = "idle"
    /\ abort' = "aborted"
    /\ UNCHANGED <<pumpPc, ready, yielded, written, ended, besidesPump>>

\* the loop takes the iterator's result
LoopTurn ==
    /\ pumpPc = "await"
    /\ ready # Null
    /\ \E r \in {streamToStdin(ready, abort, written)} :
        /\ pumpPc' = r.pc
        /\ written' = r.written
        /\ ended' = ended + r.ended
    /\ yielded' = IF ready.kind = "value" THEN Append(yielded, ready.value) ELSE yielded
    /\ ready' = Null
    /\ UNCHANGED <<abort, besidesPump>>

PumpNext ==
    \/ \E message \in Messages : StreamYields(message)
    \/ StreamEnds
    \/ StreamThrows
    \/ AbortFires
    \/ LoopTurn

\* the continuation of the awaited iterator result runs once the result is
\* there; nothing obliges the stream to produce one
PumpSpec == PumpInit /\ [][PumpNext]_vars /\ WF_vars(LoopTurn)

\* C15: once the abort signal has fired nothing more is written to stdin,
\* and streamToStdin eventually has ended stdin and returned, whether or not
\* the stream yields again (a stream whose iterator rejects is left aside:
\* the claim is about streams that yield or stay silent).  The abort is taken
\* while the stream could still yield, so that its silence afterwards is the
\* stream's own.
C15_AbortEndsStdin ==
    /\ [][aborted(abort) => written' = written]_vars
    /\ (aborted(abort) /\ Len(yielded) < MaxMessages)
          ~> (pumpPc = "threw" \/ (pumpPc = "returned" /\ ended = 1))

\* a step in which the active transport ends
TransportEnded == state \in {"Local", "Remote"} /\ state' = "Stopped"

\* C16: a step in which the active transport is aborted or its process exits
\* emits exactly turn_aborted, from that transport, when a turn was in
\* flight, exactly task_failed when the process exited with no turn in
\* flight, and nothing for an abort with no turn in flight; opencodeLoop
\* returns rather than throws; and the session is left stopped with no
\* transport running, no turn in flight, and its id and its queue as they
\* were, which is what resume needs.
C16_TransportEnd ==
    [][TransportEnded =>
          /\ emitted' = emitted \o
                (IF turn THEN <<Event("turn_aborted", Active)>>
                 ELSE IF stopped' \in {"exit", "crash"} THEN <<Event("task_failed", Active)>>
                 ELSE <<>>)
          /\ pc' = "returned"
          /\ running' = {} /\ turn' = FALSE
          /\ session' = session /\ queues' = queues]_vars

\* the local process crashed during a turn, the turn was reported aborted,
\* and the session was resumed under its id
C16_Witness ==
    /\ pc = "running"
    /\ switching = Null
    /\ Len(launched) = 2
    /\ launched[2].sessionId = Str("s1")
    /\ Len(emitted) = 2
    /\ emitted[1] = [type |-> "task_started", from |-> "local", launch |-> 1]
    /\ emitted[2] = [type |-> "turn_aborted", from |-> "local", launch |-> 1]

\* the launcher call runLocalRemoteSession makes first, for the options and
\* the session as they are
FirstLaunch ==
    launch(runOptions(opts, session), Q(opts.startingMode, Str("local")).v)

\* C17: when a resumeSessionId is given the session is constructed with it
\* and onSessionFound has been called with it, once, when the first launcher
\* is called; when none is given the session is constructed with a null id
\* and onSessionFound has not been called; in both cases no launcher runs
\* before that and the first launcher call is the one of the starting mode,
\* local with the hook server or remote, on that session.
C17_ResumeAnnounced ==
    [][/\ (pc = "start" /\ pc' = "constructed") =>
             session'.sessionId = (IF opts.resumeSessionId = Undef THEN Null
                                   ELSE opts.resumeSessionId)
       /\ (pc = "launching" /\ pc' = "running") =>
             /\ found = (IF opts.resumeSessionId = Undef THEN <<>>
                         ELSE <<opts.resumeSessionId>>)
             /\ running = {}
             /\ launched' = Append(launched, FirstLaunch)
             /\ FirstLaunch.launcher \in {"opencodeLocalLauncher", "opencodeRemoteLauncher"}
             /\ FirstLaunch.sessionId = session.sessionId]_vars

(***************************************************************************)
(* The converter of a session across mode switches.  The session keeps its *)
(* converter object when it changes transport; a new transport that        *)
(* replays the history has reset() called before its first notification.   *)
(***************************************************************************)
\* the notifications of items in flight: deltas, begins and completions
ItemCalls ==
    {c \in Calls : c.shape = "structured"
                   /\ c.d.op \in {"agent_delta", "reasoning_delta", "output_delta",
                                  "agent_done", "reasoning_done", "exec_begin", "exec_end"}}

NormalizerInit ==
    /\ NewConverter
    /\ PumpOff
    /\ PairOff
    /\ InputOff
    /\ BrowserOff
    /\ opts = Null
    /\ pc = "off"
    /\ session = Null
    /\ found = <<>>
    /\ launched = <<>>
    /\ state = "Local"
    /\ running = {"local"}
    /\ switching = Null
    /\ queues = <<>>
    /\ reachable = <<>>
    /\ sent = <<>>
    /\ drainCall = Null
    /\ enqueued = <<>>
    /\ emitted = <<>>
    /\ turn = FALSE
    /\ stopped = "no"

\* the converter the new transport starts with
converterAfterSwitch(st, replay) == IF replay THEN reset(st) ELSE st

\* switchMode: the other transport takes over; replay tells whether it
\* replays the history
ModeSwitch(replay) ==
    \E new \in Transports \ {Active} : \E st \in {converterAfterSwitch(Conv, replay)} :
        /\ state' = ModeState(new)
        /\ running' = startNew(stopOld(running, Active), new)
        /\ switching' = [from |-> Active, to |-> new, step |-> "done",
                         replay |-> replay, held |-> pending]
        /\ agentMessageBuffers' = st.agentMessageBuffers
        /\ reasoningBuffers' = st.reasoningBuffers
        /\ commandOutputBuffers' = st.commandOutputBuffers
        /\ commandMeta' = st.commandMeta
        /\ fileChangeMeta' = st.fileChangeMeta
        /\ lastCall' = [op |-> "switchMode", replay |-> replay]
        /\ lastEvents' = <<>>
        /\ pending' = IF replay THEN NoPending ELSE pending
        /\ execTrack' = IF replay THEN EmptyObj ELSE execTrack
        /\ UNCHANGED <<steps, inOpen, outOpen, inputOrdered, outputOrdered>>
        /\ UNCHANGED <<opts, pc, session, found, launched, queues, reachable, sent, drainCall,
                       enqueued, emitted, turn, stopped, pumpVars, pairVars, inputVars, browserVars>>

NormalizerNext ==
    \/ \E c \in ItemCalls : HandleNotification(c)
    \/ \E replay \in BOOLEAN : ModeSwitch(replay)

NormalizerSpec == NormalizerInit /\ [][NormalizerNext]_vars

\* C18: a mode switch that does not replay the history leaves the five maps
\* as they are, one that does leaves them empty, and a completion without
\* inline text carries the concatenation of the deltas addressed to its item
\* since the item's last completion or the last replaying switch, whether
\* they arrived before or after a switch.
C18_BuffersAcrossSwitch ==
    [][/\ (state' # state /\ ~switching'.replay) => maps' = maps
       /\ (state' # state /\ switching'.replay) =>
             maps' = <<EmptyObj, EmptyObj, EmptyObj, EmptyObj, EmptyObj>>
       /\ CompletedNoInline(lastCall') =>
             CarriesText(lastEvents', lastCall'.d, PendingText(lastCall'.d))]_vars

\* delta "a" for c1 arrived before a switch without replay, delta "b" after
\* it, and the completion of c1 carries "ab"
C18_Witness ==
    /\ switching # Null
    /\ ~switching.replay
    /\ switching.held = [NoPending EXCEPT !.agent = "c1" :> "a"]
    /\ lastCall = [op |-> "handleNotification", shape |-> "structured",
                   d |-> [op |-> "agent_done", id |-> "c1", inline |-> Undef]]
    /\ lastEvents = <<[type |-> Str("agent_message"), message |-> Str("ab")]>>

(***************************************************************************)
(* Two AppServerEventConverter objects, called in any interleaving.  A     *)
(* field initializer runs once per constructed object, so each converter   *)
(* holds five Map objects of its own.                                      *)
(***************************************************************************)
MaxPairSteps == 3

Instances == {"x", "y"}

Fields ==
    {"agentMessageBuffers", "reasoningBuffers", "commandOutputBuffers", "commandMeta",
     "fileChangeMeta"}

\* the fields of all converters bound to the five maps of the first one
construct_shared(h) ==
    [heap |-> IF h = <<>> THEN <<EmptyObj, EmptyObj, EmptyObj, EmptyObj, EmptyObj>> ELSE h,
     fields |-> [agentMessageBuffers |-> 1, reasoningBuffers |-> 2, commandOutputBuffers |-> 3,
                 commandMeta |-> 4, fileChangeMeta |-> 5]]

\* new AppServerEventConverter(): each field initializer allocates a new Map
construct(h) ==
    [heap |-> h \o <<EmptyObj, EmptyObj, EmptyObj, EmptyObj, EmptyObj>>,
     fields |-> [agentMessageBuffers |-> Len(h) + 1, reasoningBuffers |-> Len(h) + 2,
                 commandOutputBuffers |-> Len(h) + 3, commandMeta |-> Len(h) + 4,
                 fileChangeMeta |-> Len(h) + 5]]

\* the maps a converter's fields refer to
Deref(h, fields) == [f \in Fields |-> h[fields[f]]]

\* the heap after a method of the converter left its maps as st
Store(h, fields, st) ==
    [a \in DOMAIN h |->
        IF \E f \in Fields : fields[f] = a
        THEN st[CHOOSE f \in Fields : fields[f] = a]
        ELSE h[a]]

\* the calls made on the two converters: notifications that touch each of
\* the five maps, and reset
PairCalls ==
    {c \in Calls :
        /\ c.shape = "structured"
        /\ c.d.op \in {"agent_delta", "agent_done", "reasoning_delta", "reasoning_done",
                       "output_delta", "exec_begin", "exec_end", "patch_begin", "patch_end"}
        /\ c.d.id = "c1"
        /\ c.d.op \in {"agent_delta", "reasoning_delta", "output_delta"} => c.d.key = "itemId"
        /\ c.d.op \in {"agent_done", "reasoning_done"} => c.d.inline = Undef
        /\ c.d.op = "exec_end" => c.d.output = Undef
        /\ c.d.op = "patch_end" => c.d.success = Undef}
    \cup {[op |-> "reset"]}

\* one call on a converter whose maps are st: the maps after it and the
\* events it returns
callOn(st, c) ==
    IF c = [op |-> "reset"] THEN [st |-> reset(st), events |-> <<>>]
    ELSE LET n == Encode(c.d, c.shape) IN handleNotification(st, n.method, n.params)

PairInit ==
    /\ NewConverter
    /\ LoopOff
    /\ PumpOff
    /\ InputOff
    /\ BrowserOff
    /\ \E x \in {construct(<<>>)} : \E y \in {construct(x.heap)} :
        /\ heap = y.heap
        /\ instances = [i \in Instances |-> IF i = "x" THEN x.fields ELSE y.fields]
    /\ history = [i \in Instances |-> <<>>]
    /\ pairCall = [op |-> "none"]
    /\ pairEvents = <<>>

\* handleNotification or reset called on converter i
CallInstance(i, c) ==
    \E r \in {callOn(Deref(heap, instances[i]), c)} :
        /\ Len(history["x"]) + Len(history["y"]) < MaxPairSteps
        /\ heap' = Store(heap, instances[i], r.st)
        /\ history' = [history EXCEPT ![i] = Append(@, c)]
        /\ pairCall' = [on |-> i, call |-> c]
        /\ pairEvents' = r.events
        /\ UNCHANGED <<instances, besidesPair>>

PairNext == \E i \in Instances : \E c \in PairCalls : CallInstance(i, c)

PairSpec == PairInit /\ [][PairNext]_vars

\* the maps and the events of the last call of a converter that was
\* constructed alone and given the calls in order
RECURSIVE Alone(_)
Alone(calls) ==
    IF calls = <<>>
    THEN [st |-> [f \in Fields |-> EmptyObj], events |-> <<>>]
    ELSE callOn(Alone(SubSeq(calls, 1, Len(calls) - 1)).st, calls[Len(calls)])

\* C19: whatever the interleaving of calls on two converters, the maps of
\* each and the events each call returns are those of a converter that was
\* constructed alone and given only the calls made on that one.
C19_NoSharedState ==
    \A i \in DOMAIN instances :
        /\ Deref(heap, instances[i]) = Alone(history[i]).st
        /\ (pairCall # [op |-> "none"] /\ pairCall.on = i) => pairEvents = Alone(history[i]).events

\* x got delta "a", then y got delta "b" for the same item id, then the
\* completion on x carries "a" alone and y still holds "b"
C19_Witness ==
    /\ instances # <<>>
    /\ Len(history["x"]) = 2
    /\ history["y"] = <<[d |-> [op |-> "agent_delta", id |-> "c1", text |-> "b", key |-> "itemId"],
                         shape |-> "structured"]>>
    /\ pairCall = [on |-> "x",
                   call |-> [d |-> [op |-> "agent_done", id |-> "c1", inline |-> Undef],
                             shape |-> "structured"]]
    /\ pairEvents = <<[type |-> Str("agent_message"), message |-> Str("a")]>>
    /\ Deref(heap, instances["y"]).agentMessageBuffers = ("c1" :> Str("b"))

(***************************************************************************)
(* Payload fields of the wrong type.  Each case is a notification with one *)
(* field left open: the field is given a value of another type than the    *)
(* one handleNotification reads it as, or is left out.                     *)
(***************************************************************************)
\* values that asString, asBoolean, asNumber and asRecord turn down; NaN
\* stands for the numbers that Number.isFinite rejects
WrongValues(type) ==
    CASE type = "string" -> {Num(5), Bool(TRUE), Obj(EmptyObj)}
      [] type = "boolean" -> {Str("yes"), Num(1)}
      [] type = "number" -> {NaN, Str("7")}
      [] type = "object" -> {Str("x"), Num(5)}

\* the field of each case, the type it is read as, and whether the
\* notification also carries a value under a name read after the field
FieldCases ==
    {[field |-> "msg.turn_id", type |-> "string", next |-> FALSE],
     [field |-> "msg.turn_id", type |-> "string", next |-> TRUE],
     [field |-> "msg.model_context_window", type |-> "number", next |-> FALSE],
     [field |-> "msg.exit_code", type |-> "number", next |-> FALSE],
     [field |-> "msg", type |-> "object", next |-> FALSE],
     [field |-> "will_retry", type |-> "boolean", next |-> FALSE],
     [field |-> "will_retry", type |-> "boolean", next |-> TRUE],
     [field |-> "turn", type |-> "object", next |-> FALSE],
     [field |-> "tokenUsage", type |-> "object", next |-> FALSE],
     [field |-> "delta", type |-> "string", next |-> FALSE],
     [field |-> "itemId", type |-> "string", next |-> FALSE],
     [field |-> "item", type |-> "object", next |-> FALSE],
     [field |-> "item.text", type |-> "string", next |-> FALSE],
     [field |-> "item.text", type |-> "string", next |-> TRUE],
     [field |-> "item.exitCode", type |-> "number", next |-> FALSE],
     [field |-> "item.success", type |-> "boolean", next |-> FALSE],
     [field |-> "item.success", type |-> "boolean", next |-> TRUE]}

\* the notification of a case with its field holding value, or without the
\* field when value is undefined
FieldNote(case, value) ==
    CASE case.field = "msg.turn_id" ->
            LegacyNote("task_started",
                       Spread(Field("turn_id", value),
                              IF case.next THEN "turnId" :> Str("t1") ELSE EmptyObj))
      [] case.field = "msg.model_context_window" ->
            LegacyNote("task_started",
                       Spread("turn_id" :> Str("t1"), Field("model_context_window", value)))
      [] case.field = "msg.exit_code" ->
            LegacyNote("exec_command_end",
                       Spread("call_id" :> Str("c1"), Field("exit_code", value)))
      [] case.field = "msg" -> Note("codex/event/agent_message", Field("msg", value))
      [] case.field = "will_retry" ->
            Note("error",
                 Spread(Spread("message" :> Str("boom"), Field("will_retry", value)),
                        IF case.next THEN "willRetry" :> Bool(TRUE) ELSE EmptyObj))
      [] case.field = "turn" -> Note("turn/started", Spread(Field("turn", value), "id" :> Str("t1")))
      [] case.field = "tokenUsage" ->
            Note("thread/tokenUsage/updated",
                 Spread(Field("tokenUsage", value), "threadId" :> Str("th1")))
      [] case.field = "delta" ->
            Note("item/agentMessage/delta", Spread("itemId" :> Str("c1"), Field("delta", value)))
      [] case.field = "itemId" ->
            Note("item/agentMessage/delta",
                 Spread(Spread(Field("itemId", value), "item" :> Obj("id" :> Str("c1"))),
                        "delta" :> Str("a")))
      [] case.field = "item" ->
            Note("item/completed",
                 Spread(Spread(Field("item", value), "type" :> Str("agentMessage")),
                        Spread("id" :> Str("c1"), "text" :> Str("m"))))
      [] case.field = "item.text" ->
            ItemNote("item/completed", "agentMessage", "c1",
                     Spread(Field("text", value),
                            IF case.next THEN "message" :> Str("m") ELSE EmptyObj))
      [] case.field = "item.exitCode" ->
            ItemNote("item/completed", "commandExecution", "c1", Field("exitCode", value))
      [] case.field = "item.success" ->
            ItemNote("item/completed", "fileChange", "c1",
                     Spread(Field("success", value),
                            IF case.next THEN "status" :> Str("completed") ELSE EmptyObj))

\* the notifications that fill the buffers and the metadata of item c1
\* before the field cases
FillCalls ==
    {c \in Calls : /\ c.shape = "structured"
                   /\ c.d.op \in {"agent_delta", "exec_begin", "patch_begin"}
                   /\ c.d.id = "c1"}

FieldInit == NewConverter /\ LoopOff /\ PumpOff /\ PairOff /\ InputOff /\ BrowserOff

\* handleNotification with the field of a case holding a value of the
\* wrong type
HandleWrongType(case, value) ==
    \E n \in {FieldNote(case, value)} : \E r \in {handleNotification(Conv, n.method, n.params)} :
        /\ steps < MaxSteps
        /\ agentMessageBuffers' = r.st.agentMessageBuffers
        /\ reasoningBuffers' = r.st.reasoningBuffers
        /\ commandOutputBuffers' = r.st.commandOutputBuffers
        /\ commandMeta' = r.st.commandMeta
        /\ fileChangeMeta' = r.st.fileChangeMeta
        /\ lastCall' = [op |-> "wrongType", case |-> case, value |-> value]
        /\ lastEvents' = r.events
        /\ steps' = steps + 1
        /\ UNCHANGED <<observed, besidesConverter>>

FieldNext ==
    \/ \E c \in FillCalls : HandleNotification(c)
    \/ \E case \in FieldCases : \E value \in WrongValues(case.type) : HandleWrongType(case, value)

FieldSpec == FieldInit /\ [][FieldNext]_vars

\* the events and the maps of the call just made are those the same call
\* gives with the field left out
SameAsAbsent ==
    LET n == FieldNote(lastCall'.case, Undef)
        r == handleNotification(Conv, n.method, n.params)
    IN  /\ lastEvents' = r.events
        /\ maps' = <<r.st.agentMessageBuffers, r.st.reasoningBuffers, r.st.commandOutputBuffers,
                     r.st.commandMeta, r.st.fileChangeMeta>>

\* C20: a notification with a field of the wrong type returns the events
\* and leaves the maps that the same notification without the field does.
C20_WrongTypeAsAbsent ==
    [][lastCall'.op = "wrongType" => SameAsAbsent]_vars

\* the same for the fields that no name read after them backs up: those
\* are handled as if absent
C20_WrongTypeAsAbsentAlone ==
    [][(lastCall'.op = "wrongType" /\ ~lastCall'.case.next /\ lastCall'.case.field # "tokenUsage")
          => SameAsAbsent]_vars

(***************************************************************************)
(* Completions that carry their text or output inline.                     *)
(***************************************************************************)
\* a structured item/completed that carries inline text or output
CompletedInline(call) ==
    /\ Handled(call)
    /\ call.shape = "structured"
    /\ \/ call.d.op \in {"agent_done", "reasoning_done"} /\ call.d.inline # Undef
       \/ call.d.op = "exec_end" /\ call.d.output # Undef

\* the inline text or output of a completion
InlineOf(d) == IF d.op = "exec_end" THEN d.output.v ELSE d.inline.v

\* the buffer a completion of datum d flushes, after the call
BufferAfter(d) ==
    CASE d.op = "agent_done" -> agentMessageBuffers'
      [] d.op = "reasoning_done" -> reasoningBuffers'
      [] d.op = "exec_end" -> commandOutputBuffers'

\* C28: an item/completed with inline text or output emits the inline value,
\* whatever deltas were buffered for the id, and leaves no buffer entry for
\* the id.
C28_InlineWins ==
    [][CompletedInline(lastCall') =>
          /\ CarriesText(lastEvents', lastCall'.d, InlineOf(lastCall'.d))
          /\ lastCall'.d.id \notin DOMAIN BufferAfter(lastCall'.d)]_vars

\* delta "a" was buffered for c1, and the next notification, the completion
\* of c1 with inline text "m", emitted "m"
C28_Witness ==
    /\ switching # Null
    /\ ~switching.replay
    /\ switching.held = [NoPending EXCEPT !.agent = "c1" :> "a"]
    /\ steps = 2
    /\ lastCall = [op |-> "handleNotification", shape |-> "structured",
                   d |-> [op |-> "agent_done", id |-> "c1", inline |-> Str("m")]]
    /\ lastEvents = <<[type |-> Str("agent_message"), message |-> Str("m")]>>
    /\ "c1" \notin DOMAIN agentMessageBuffers

(***************************************************************************)
(* Deltas.                                                                 *)
(***************************************************************************)
\* map after is map before with text appended to the entry of one key
AppendedTo(before, after, text) ==
    \E key \in DOMAIN after :
        /\ after[key] = Str((IF key \in DOMAIN before THEN before[key].v ELSE "") \o text)
        /\ \A other \in (DOMAIN before) \ {key} : other \in DOMAIN after /\ after[other] = before[other]
        /\ DOMAIN after = DOMAIN before \cup {key}

\* a delta in the shape given is suppressed or emitted as the claim says
DeltaHandled(shapes) ==
    (Handled(lastCall') /\ lastCall'.shape \in shapes) =>
        /\ lastCall'.d.op \in {"agent_delta", "output_delta"} => lastEvents' = <<>>
        /\ lastCall'.d.op = "reasoning_delta" =>
              /\ lastEvents' = <<[type |-> Str("agent_reasoning_delta"), delta |-> Str(lastCall'.d.text)]>>
              /\ AppendedTo(reasoningBuffers, reasoningBuffers', lastCall'.d.text)

\* C29: an agent-message delta and an output delta return no event, and a
\* reasoning delta returns one agent_reasoning_delta event and is appended
\* to reasoningBuffers, in the legacy and in the structured shape.
C29_DeltasBuffered == [][DeltaHandled({"legacy", "structured"})]_vars

\* the same for the structured shape alone
C29_StructuredDeltasBuffered == [][DeltaHandled({"structured"})]_vars

(***************************************************************************)
(* The error text of task_failed.                                          *)
(***************************************************************************)
\* the error message a datum carries, or undefined
ErrorText(d) ==
    CASE d.op = "error" -> d.message
      [] d.op = "turn_completed" -> d.error
      [] OTHER -> Undef

\* the detail of a message that is JSON with a string detail, else the message
Unwrapped(message) ==
    IF parsedDetail(message.v) # Null THEN parsedDetail(message.v) ELSE message

\* every task_failed event returned for a notification in one of the shapes
\* carries the unwrapped error message of the notification
FailureUnwrapped(shapes) ==
    (Handled(lastCall') /\ lastCall'.shape \in shapes /\ ErrorText(lastCall'.d) # Undef) =>
        \A i \in DOMAIN lastEvents' :
            (lastEvents'[i]["type"] = Str("task_failed") /\ "error" \in DOMAIN lastEvents'[i]) =>
                lastEvents'[i]["error"] = Unwrapped(ErrorText(lastCall'.d))

\* C30: the error of a task_failed event is the detail of a JSON message
\* with a string detail and the raw message otherwise, on every path.
C30_DetailUnwrapped == [][FailureUnwrapped({"legacy", "structured"})]_vars

\* the same for the legacy shape, where the JSON message arrives in a
\* codex/event/error notification
C30_LegacyDetailUnwrapped == [][FailureUnwrapped({"legacy"})]_vars

(***************************************************************************)
(* The forms one notification can take: its fields nested under the        *)
(* wrapper key or flattened, its id under the snake_case or the camelCase  *)
(* name, and the patch begin and end notifications with the fields that    *)
(* decide success.                                                         *)
(***************************************************************************)
WrapCases ==
    {"thread/started", "turn/started", "turn/completed failed", "turn/completed interrupted",
     "item/started commandExecution", "item/completed agentMessage"}

TurnIdCases ==
    {"task_started", "task_complete", "task_failed", "turn_aborted", "turn/started", "turn/completed"}

CallIdCases ==
    {"exec_command_begin", "exec_command_end", "exec_approval_request", "patch_apply_begin",
     "patch_apply_end", "outputDelta call id", "outputDelta item id"}

\* the values a patch begin gives as its changes: lists of per-path records
\* (every path extractable, some, none, no entry), a mapping, and values that
\* are neither
ChangesValues ==
    {Arr(<<Obj(Spread("path" :> Str("f.txt"), "kind" :> Str("add"))), Obj("file" :> Str("g.txt"))>>),
     Arr(<<Obj("kind" :> Str("add")), Obj("filePath" :> Str("f.txt"))>>),
     Arr(<<Obj("kind" :> Str("add")), Str("f.txt")>>),
     Arr(<<>>),
     Obj("f.txt" :> Str("add")),
     Str("f.txt"), Num(1), Null, Undef}

Forms ==
    [kind : {"wrap"}, case : WrapCases, nested : BOOLEAN]
    \cup [kind : {"changes"}, shape : {"legacy", "structured"}, changes : ChangesValues]
    \cup [kind : {"name"}, case : TurnIdCases \cup CallIdCases, camel : BOOLEAN]
    \cup [kind : {"patch_begin"}, shape : {"legacy", "structured"}, auto : {Undef, Bool(TRUE)}]
    \cup [kind : {"patch_end"}, shape : {"legacy", "structured"},
          success : {Undef, Bool(TRUE), Bool(FALSE), Str("yes")}, ok : {Undef, Bool(TRUE)},
          status : {Undef, Str("completed"), Str("failed")}]

\* the wrapper key, the method and the fields of a wrap case
WrapKey(case) ==
    CASE case = "thread/started" -> "thread"
      [] case \in {"turn/started", "turn/completed failed", "turn/completed interrupted"} -> "turn"
      [] OTHER -> "item"

WrapMethod(case) ==
    CASE case \in {"turn/completed failed", "turn/completed interrupted"} -> "turn/completed"
      [] case = "item/started commandExecution" -> "item/started"
      [] case = "item/completed agentMessage" -> "item/completed"
      [] OTHER -> case

WrapFields(case) ==
    CASE case = "thread/started" -> "id" :> Str("th1")
      [] case = "turn/started" -> "id" :> Str("t1")
      [] case = "turn/completed failed" ->
            Spread(Spread("id" :> Str("t1"), "status" :> Str("failed")), "error" :> Str("boom"))
      [] case = "turn/completed interrupted" ->
            Spread("id" :> Str("t1"), "status" :> Str("interrupted"))
      [] case = "item/started commandExecution" ->
            Spread(Spread("type" :> Str("commandExecution"), "id" :> Str("c1")), "command" :> Str("ls"))
      [] case = "item/completed agentMessage" ->
            Spread(Spread("type" :> Str("agentMessage"), "id" :> Str("c1")), "text" :> Str("m"))

\* the name an id is given under
IdName(case, camel) ==
    CASE case \in {"task_started", "task_complete", "task_failed", "turn_aborted"} ->
            IF camel THEN "turnId" ELSE "turn_id"
      [] case \in {"turn/started", "turn/completed"} -> IF camel THEN "turnId" ELSE "turn_id"
      [] case = "outputDelta item id" -> IF camel THEN "itemId" ELSE "item_id"
      [] OTHER -> IF camel THEN "callId" ELSE "call_id"

\* the notification of a form
FormNote(f) ==
    CASE f.kind = "wrap" ->
            Note(WrapMethod(f.case),
                 IF f.nested THEN WrapKey(f.case) :> Obj(WrapFields(f.case)) ELSE WrapFields(f.case))
      [] f.kind = "name" /\ f.case \in {"turn/started", "turn/completed"} ->
            Note(f.case, IdName(f.case, f.camel) :> Str("t1"))
      [] f.kind = "name" /\ f.case \in {"outputDelta call id", "outputDelta item id"} ->
            Note("item/commandExecution/outputDelta",
                 Spread(IdName(f.case, f.camel) :> Str("c1"), "delta" :> Str("a")))
      [] f.kind = "name" /\ f.case \in TurnIdCases ->
            LegacyNote(f.case, IdName(f.case, f.camel) :> Str("t1"))
      [] f.kind = "name" ->
            LegacyNote(f.case, IdName(f.case, f.camel) :> Str("c1"))
      [] f.kind = "changes" /\ f.shape = "legacy" ->
            LegacyNote("patch_apply_begin",
                       Spread("call_id" :> Str("c1"), Field("changes", f.changes)))
      [] f.kind = "changes" ->
            ItemNote("item/started", "fileChange", "c1", Field("changes", f.changes))
      [] f.kind = "patch_begin" /\ f.shape = "legacy" ->
            LegacyNote("patch_apply_begin",
                       Spread(Spread("call_id" :> Str("c1"), "changes" :> Obj("f.txt" :> Str("add"))),
                              Field("auto_approved", f.auto)))
      [] f.kind = "patch_begin" ->
            ItemNote("item/started", "fileChange", "c1",
                     Spread("changes" :> Obj("f.txt" :> Str("add")), Field("autoApproved", f.auto)))
      [] f.kind = "patch_end" /\ f.shape = "legacy" ->
            LegacyNote("patch_apply_end",
                       Spread(Spread("call_id" :> Str("c1"), Field("success", f.success)),
                              Spread(Field("ok", f.ok), Field("status", f.status))))
      [] f.kind = "patch_end" ->
            ItemNote("item/completed", "fileChange", "c1",
                     Spread(Field("success", f.success),
                            Spread(Field("ok", f.ok), Field("status", f.status))))

FormInit == NewConverter /\ LoopOff /\ PumpOff /\ PairOff /\ InputOff /\ BrowserOff

\* handleNotification with the notification of a form
HandleForm(f) ==
    \E n \in {FormNote(f)} : \E r \in {handleNotification(Conv, n.method, n.params)} :
        /\ steps < MaxSteps
        /\ agentMessageBuffers' = r.st.agentMessageBuffers
        /\ reasoningBuffers' = r.st.reasoningBuffers
        /\ commandOutputBuffers' = r.st.commandOutputBuffers
        /\ commandMeta' = r.st.commandMeta
        /\ fileChangeMeta' = r.st.fileChangeMeta
        /\ lastCall' = [op |-> "form", form |-> f]
        /\ lastEvents' = r.events
        /\ steps' = steps + 1
        /\ UNCHANGED <<observed, besidesConverter>>

FormNext == \E f \in Forms : HandleForm(f)

FormSpec == FormInit /\ [][FormNext]_vars

\* the events and the maps of the call just made are those the call with
\* form f would have given
SameAsForm(f) ==
    LET n == FormNote(f)
        r == handleNotification(Conv, n.method, n.params)
    IN  /\ lastEvents' = r.events
        /\ maps' = <<r.st.agentMessageBuffers, r.st.reasoningBuffers, r.st.commandOutputBuffers,
                     r.st.commandMeta, r.st.fileChangeMeta>>

\* C21: a thread, turn or item notification with its fields nested under
\* the wrapper key returns the events and leaves the maps of the same
\* notification with the fields at the top level of params.
C21_WrapperTransparent ==
    [][(lastCall'.op = "form" /\ lastCall'.form.kind = "wrap" /\ lastCall'.form.nested) =>
          SameAsForm([lastCall'.form EXCEPT !.nested = FALSE])]_vars

\* the same without the failed turn/completed, whose error text is at stake
C21_WrapperTransparentButError ==
    [][(/\ lastCall'.op = "form"
        /\ lastCall'.form.kind = "wrap"
        /\ lastCall'.form.nested
        /\ lastCall'.form.case # "turn/completed failed") =>
          SameAsForm([lastCall'.form EXCEPT !.nested = FALSE])]_vars

\* C22: a notification with its turn id or call id under the camelCase name
\* returns the events and leaves the maps of the same notification with the
\* id under the snake_case name.
C22_AliasNames ==
    [][(lastCall'.op = "form" /\ lastCall'.form.kind = "name" /\ lastCall'.form.camel) =>
          SameAsForm([lastCall'.form EXCEPT !.camel = FALSE])]_vars

\* the same without exec_approval_request, whose event repeats the msg
C22_AliasNamesButApproval ==
    [][(/\ lastCall'.op = "form"
        /\ lastCall'.form.kind = "name"
        /\ lastCall'.form.camel
        /\ lastCall'.form.case # "exec_approval_request") =>
          SameAsForm([lastCall'.form EXCEPT !.camel = FALSE])]_vars

\* an output delta that names its command by call id is dropped under
\* either name
C22_CallIdDeltaDropped ==
    [][(/\ lastCall'.op = "form"
        /\ lastCall'.form.kind = "name"
        /\ lastCall'.form.case = "outputDelta call id") =>
          (lastEvents' = <<>> /\ maps' = maps)]_vars

(***************************************************************************)
(* The end of a patch.                                                     *)
(***************************************************************************)
PatchEnd(call) == call.op = "form" /\ call.form.kind = "patch_end"

\* the metadata stored for the patch when the end notification arrives
StoredPatchMeta ==
    IF "c1" \in DOMAIN fileChangeMeta THEN fileChangeMeta["c1"] ELSE EmptyObj

\* the end notification gives no boolean under success or ok (the forms
\* leave applied out)
NoBooleanSuccess(f) == f.success.k # "boolean" /\ f.ok.k # "boolean"

\* a structured completion that gives neither success nor ok and whose
\* status is completed
CompletedByStatus(f) ==
    f.shape = "structured" /\ f.success = Undef /\ f.ok = Undef /\ f.status = Str("completed")

\* one patch_apply_end event with the stored metadata and a boolean
\* success, and the call id gone from fileChangeMeta
PatchEndEvent ==
    /\ Len(lastEvents') = 1
    /\ lastEvents'[1]["type"] = Str("patch_apply_end")
    /\ lastEvents'[1]["call_id"] = Str("c1")
    /\ \A name \in DOMAIN StoredPatchMeta :
          name \in DOMAIN lastEvents'[1] /\ lastEvents'[1][name] = StoredPatchMeta[name]
    /\ "success" \in DOMAIN lastEvents'[1]
    /\ lastEvents'[1]["success"].k = "boolean"
    /\ "c1" \notin DOMAIN fileChangeMeta'

\* C23 as stated: success is false whenever the end notification gives no
\* boolean success, ok or applied value.
C23_PatchEndAsStated ==
    [][PatchEnd(lastCall') =>
          /\ PatchEndEvent
          /\ NoBooleanSuccess(lastCall'.form) => lastEvents'[1]["success"] = Bool(FALSE)]_vars

\* C23: every patch_apply_end event carries the changes and auto_approved
\* stored at the begin and a boolean success, and the call id is removed
\* from fileChangeMeta; success is false whenever the end notification
\* gives no boolean success or ok value, except that a structured
\* completion with neither field and status completed carries success true.
C23_PatchEnd ==
    [][PatchEnd(lastCall') =>
          /\ PatchEndEvent
          /\ (NoBooleanSuccess(lastCall'.form) /\ ~CompletedByStatus(lastCall'.form)) =>
                lastEvents'[1]["success"] = Bool(FALSE)
          /\ CompletedByStatus(lastCall'.form) => lastEvents'[1]["success"] = Bool(TRUE)]_vars

\* a legacy begin stored changes and auto_approved, and the structured
\* completion with status completed alone carried both and success true
C23_Witness ==
    /\ lastCall = [op |-> "form",
                   form |-> [kind |-> "patch_end", shape |-> "structured", success |-> Undef,
                             ok |-> Undef, status |-> Str("completed")]]
    /\ lastEvents = <<[type |-> Str("patch_apply_end"), call_id |-> Str("c1"),
                       changes |-> Obj("f.txt" :> Str("add")), auto_approved |-> Bool(TRUE),
                       success |-> Bool(TRUE)]>>
    /\ "c1" \notin DOMAIN fileChangeMeta

(***************************************************************************)
(* useInputHistory: the composer's input history, kept in sessionStorage,  *)
(* and its navigation with the up and down arrows.                         *)
(***************************************************************************)
MAX_HISTORY == 50

MaxPushes == 2

\* String.prototype.trim on the texts the model pushes
trim(text) ==
    CASE text = " c " -> "c"
      [] text = "  " -> ""
      [] OTHER -> text

\* loadHistory(): the stored array, or [] when no item is set
loadHistory(storage) == IF storage.set THEN storage.entries ELSE <<>>

\* saveHistory(history): the item set
saveHistory(entries) == [set |-> TRUE, entries |-> entries]

\* history.splice(0, history.length - MAX_HISTORY) when history is longer
\* than MAX_HISTORY
splice(entries) ==
    IF Len(entries) > MAX_HISTORY
    THEN SubSeq(entries, Len(entries) - MAX_HISTORY + 1, Len(entries))
    ELSE entries

\* history[index] ?? null
entryAt(entries, index) ==
    IF index + 1 \in DOMAIN entries THEN Str(entries[index + 1]) ELSE Null

\* push without the comparison with the last entry
push_noDedup(hook, text) ==
    LET trimmed == trim(text)
        entries == loadHistory(hook.storage)
    IN  IF trimmed = "" THEN hook
        ELSE [storage |-> saveHistory(splice(Append(entries, trimmed))), index |-> -1, draft |-> ""]

\* push without the splice
push_keepAll(hook, text) ==
    LET trimmed == trim(text)
        entries == loadHistory(hook.storage)
    IN  IF trimmed = "" THEN hook
        ELSE IF Len(entries) > 0 /\ entries[Len(entries)] = trimmed
        THEN [hook EXCEPT !.index = -1, !.draft = ""]
        ELSE [storage |-> saveHistory(Append(entries, trimmed)), index |-> -1, draft |-> ""]

push(hook, text) ==
    LET trimmed == trim(text)
        entries == loadHistory(hook.storage)
    IN  IF trimmed = "" THEN hook
        ELSE IF Len(entries) > 0 /\ entries[Len(entries)] = trimmed
        THEN [hook EXCEPT !.index = -1, !.draft = ""]
        ELSE [storage |-> saveHistory(splice(Append(entries, trimmed))), index |-> -1, draft |-> ""]

\* up saving the current text as the draft on every call
up_draftEveryCall(hook, currentText) ==
    LET entries == loadHistory(hook.storage)
    IN  IF Len(entries) = 0 THEN [hook |-> hook, result |-> Null]
        ELSE IF hook.index = -1
        THEN [hook |-> [hook EXCEPT !.draft = currentText, !.index = Len(entries) - 1],
              result |-> entryAt(entries, Len(entries) - 1)]
        ELSE IF hook.index > 0
        THEN [hook |-> [hook EXCEPT !.draft = currentText, !.index = @ - 1],
              result |-> entryAt(entries, hook.index - 1)]
        ELSE [hook |-> hook, result |-> Null]

\* up stepping back whenever it is browsing, the oldest entry included
up_noOldestCheck(hook, currentText) ==
    LET entries == loadHistory(hook.storage)
    IN  IF Len(entries) = 0 THEN [hook |-> hook, result |-> Null]
        ELSE IF hook.index = -1
        THEN [hook |-> [hook EXCEPT !.draft = currentText, !.index = Len(entries) - 1],
              result |-> entryAt(entries, Len(entries) - 1)]
        ELSE [hook |-> [hook EXCEPT !.index = @ - 1], result |-> entryAt(entries, hook.index - 1)]

up(hook, currentText) ==
    LET entries == loadHistory(hook.storage)
    IN  IF Len(entries) = 0 THEN [hook |-> hook, result |-> Null]
        ELSE IF hook.index = -1
        THEN [hook |-> [hook EXCEPT !.draft = currentText, !.index = Len(entries) - 1],
              result |-> entryAt(entries, Len(entries) - 1)]
        ELSE IF hook.index > 0
        THEN [hook |-> [hook EXCEPT !.index = @ - 1], result |-> entryAt(entries, hook.index - 1)]
        ELSE [hook |-> hook, result |-> Null]

\* down stepping forward whenever it is browsing, the newest entry included
down_noNewestCheck(hook) ==
    LET entries == loadHistory(hook.storage)
    IN  IF hook.index = -1 THEN [hook |-> hook, result |-> Null]
        ELSE [hook |-> [hook EXCEPT !.index = @ + 1], result |-> entryAt(entries, hook.index + 1)]

\* down returning '' where it returns the draft
down_emptyDraft(hook) ==
    LET entries == loadHistory(hook.storage)
    IN  IF hook.index = -1 THEN [hook |-> hook, result |-> Null]
        ELSE IF hook.index < Len(entries) - 1
        THEN [hook |-> [hook EXCEPT !.index = @ + 1], result |-> entryAt(entries, hook.index + 1)]
        ELSE [hook |-> [hook EXCEPT !.index = -1], result |-> Str("")]

down(hook) ==
    LET entries == loadHistory(hook.storage)
    IN  IF hook.index = -1 THEN [hook |-> hook, result |-> Null]
        ELSE IF hook.index < Len(entries) - 1
        THEN [hook |-> [hook EXCEPT !.index = @ + 1], result |-> entryAt(entries, hook.index + 1)]
        ELSE [hook |-> [hook EXCEPT !.index = -1], result |-> Str(hook.draft)]

\* reset() of the hook
resetNavigation(hook) == [hook EXCEPT !.index = -1, !.draft = ""]

\* the hook's state as one record
Hook == [storage |-> inputStorage, index |-> indexRef, draft |-> draftRef]

\* the texts passed to push and to up
PushTexts == {"a", "b", " c ", "  "}
CurrentTexts == {"", "d"}

\* the history that alternate pushes of "a" and "b" leave
Alternating(n) == [i \in 1..n |-> IF i % 2 = 1 THEN "a" ELSE "b"]

\* the hook is mounted on a session storage that holds nothing or the
\* history of an earlier mount of the same tab
InputInit ==
    /\ NewConverter
    /\ LoopOff
    /\ PumpOff
    /\ PairOff
    /\ BrowserOff
    /\ inputStorage \in {[set |-> FALSE, entries |-> <<>>]}
                        \cup {saveHistory(Alternating(n)) : n \in {1, MAX_HISTORY - 1, MAX_HISTORY}}
    /\ indexRef = -1
    /\ draftRef = ""
    /\ inputCall = [op |-> "none"]
    /\ pushes = 0
    /\ pushed = loadHistory(inputStorage)
    /\ browseText = ""

Push(text) ==
    \E after \in {push(Hook, text)} :
        /\ pushes < MaxPushes
        /\ inputStorage' = after.storage
        /\ indexRef' = after.index
        /\ draftRef' = after.draft
        /\ inputCall' = [op |-> "push", text |-> text, result |-> Undef]
        /\ pushes' = pushes + 1
        /\ pushed' = IF trim(text) = "" THEN pushed ELSE Append(pushed, trim(text))
        /\ UNCHANGED <<browseText, besidesInput>>

Up(currentText) ==
    \E r \in {up(Hook, currentText)} :
        /\ inputStorage' = r.hook.storage
        /\ indexRef' = r.hook.index
        /\ draftRef' = r.hook.draft
        /\ inputCall' = [op |-> "up", text |-> currentText, result |-> r.result]
        /\ browseText' = IF indexRef = -1 /\ r.result # Null THEN currentText ELSE browseText
        /\ UNCHANGED <<pushes, pushed, besidesInput>>

Down ==
    \E r \in {down(Hook)} :
        /\ inputStorage' = r.hook.storage
        /\ indexRef' = r.hook.index
        /\ draftRef' = r.hook.draft
        /\ inputCall' = [op |-> "down", text |-> "", result |-> r.result]
        /\ UNCHANGED <<pushes, pushed, browseText, besidesInput>>

ResetNavigation ==
    \E after \in {resetNavigation(Hook)} :
        /\ inputStorage' = after.storage
        /\ indexRef' = after.index
        /\ draftRef' = after.draft
        /\ inputCall' = [op |-> "reset", text |-> "", result |-> Undef]
        /\ UNCHANGED <<pushes, pushed, browseText, besidesInput>>

InputNext ==
    \/ \E text \in PushTexts : Push(text)
    \/ \E currentText \in CurrentTexts : Up(currentText)
    \/ Down
    \/ ResetNavigation

InputSpec == InputInit /\ [][InputNext]_vars

\* the sequence without the entries that repeat the one before them, made
\* half by half
RECURSIVE Collapsed(_)
Collapsed(texts) ==
    IF Len(texts) <= 1 THEN texts
    ELSE LET middle == Len(texts) \div 2
             front == Collapsed(SubSeq(texts, 1, middle))
             back == Collapsed(SubSeq(texts, middle + 1, Len(texts)))
         IN  IF front[Len(front)] = back[1] THEN front \o Tail(back) ELSE front \o back

\* the last n entries of a sequence
LastEntries(texts, n) ==
    IF Len(texts) > n THEN SubSeq(texts, Len(texts) - n + 1, Len(texts)) ELSE texts

EntryAt(position) == Str(loadHistory(inputStorage)[position + 1])

\* C25: up returns the entry just before the navigation position, the most
\* recent one when not browsing, and moves there; with an empty history or
\* at the oldest entry it returns null and leaves position and draft alone.
C25_UpStepsBack ==
    [][inputCall'.op = "up" =>
          IF Len(loadHistory(inputStorage)) = 0 \/ indexRef = 0
          THEN inputCall'.result = Null /\ indexRef' = indexRef /\ draftRef' = draftRef
          ELSE IF indexRef = -1
          THEN /\ indexRef' = Len(loadHistory(inputStorage)) - 1
               /\ inputCall'.result = EntryAt(indexRef')
          ELSE /\ indexRef' = indexRef - 1
               /\ inputCall'.result = EntryAt(indexRef')]_vars

\* up at the oldest of 50 entries, reached by 50 up calls, returned null and
\* stayed there with the draft kept
C25_Witness ==
    /\ inputCall = [op |-> "up", text |-> "", result |-> Null]
    /\ Len(loadHistory(inputStorage)) = MAX_HISTORY
    /\ indexRef = 0
    /\ draftRef = "d"

\* C26: down returns null when not browsing, the next newer entry when
\* there is one, and otherwise the text the up that started browsing saved,
\* with the position back at the draft.
C26_DownStepsForward ==
    [][inputCall'.op = "down" =>
          IF indexRef = -1
          THEN inputCall'.result = Null /\ indexRef' = -1
          ELSE IF indexRef < Len(loadHistory(inputStorage)) - 1
          THEN indexRef' = indexRef + 1 /\ inputCall'.result = EntryAt(indexRef')
          ELSE indexRef' = -1 /\ inputCall'.result = Str(browseText)]_vars

\* after up("d") and further ups and downs, the last down left the newest
\* entry and returned "d"
C26_Witness ==
    /\ inputCall = [op |-> "down", text |-> "", result |-> Str("d")]
    /\ indexRef = -1
    /\ browseText = "d"
    /\ Len(loadHistory(inputStorage)) > 1

\* the most recent entry of the history, or null when there is none
MostRecent ==
    IF Len(loadHistory(inputStorage)) = 0 THEN Null
    ELSE EntryAt(Len(loadHistory(inputStorage)) - 1)

\* after the calls named, navigation is at the draft position with an empty
\* draft, and the call that follows returns null if it is down and the most
\* recent entry if it is up
ResetsNavigation(texts) ==
    /\ (inputCall'.op = "reset" \/ (inputCall'.op = "push" /\ inputCall'.text \in texts)) =>
          indexRef' = -1 /\ draftRef' = ""
    /\ (inputCall.op = "reset" \/ (inputCall.op = "push" /\ inputCall.text \in texts)) =>
          /\ inputCall'.op = "down" => inputCall'.result = Null
          /\ inputCall'.op = "up" => inputCall'.result = MostRecent

\* C27: after reset() and after any push(text), navigation is at the draft
\* position with an empty draft, the next down returns null and the next up
\* the most recent entry.
C27_NavigationReset == [][ResetsNavigation(PushTexts)]_vars

\* the same for the pushes of a text that is not blank
C27_NavigationResetNonBlank == [][ResetsNavigation({text \in PushTexts : trim(text) # ""})]_vars

\* the lines streamToStdin writes for a sequence of messages, one per message
\* and in their order
linesOf(messages) == [i \in 1..Len(messages) |-> plusNewline(JSONstringify(messages[i]))]

\* C39: once streamToStdin has left its loop (the stream exhausted, the abort
\* observed, or the stream's iterator rejecting) the lines written are those
\* of the messages taken before the abort, each once and in yield order, and
\* stdin.end() has been called exactly once
C39_EndsOnEveryExit ==
    pumpPc # "await" =>
        /\ \E n \in 0..Len(yielded) : written = linesOf(SubSeq(yielded, 1, n))
        /\ ended = 1

\* the same on the two ways out that run past the loop: the stream exhausted
\* and the abort observed
C39_EndsOnReturn ==
    pumpPc = "returned" =>
        /\ \E n \in 0..Len(yielded) : written = linesOf(SubSeq(yielded, 1, n))
        /\ ended = 1

\* an entry as push stores it: not empty, no white space at either end
Trimmed(entry) == entry # "" /\ trim(entry) = entry

\* a stored history as push leaves it
WellFormed(entries) ==
    /\ \A i \in DOMAIN entries : Trimmed(entries[i])
    /\ \A i \in DOMAIN entries : i + 1 \in DOMAIN entries => entries[i] # entries[i + 1]

\* the text trimmed is empty or the last stored entry
BlankOrRepeat(entries, text) ==
    \/ trim(text) = ""
    \/ Len(entries) > 0 /\ entries[Len(entries)] = trim(text)

\* C34: every stored entry is non-empty and has no leading or trailing white
\* space, no two adjacent stored entries are equal, and a push whose trimmed
\* text is empty or equals the last entry leaves the stored history as it was.
C34_StoredWellFormed ==
    /\ []WellFormed(loadHistory(inputStorage))
    /\ [][(inputCall'.op = "push" /\ BlankOrRepeat(loadHistory(inputStorage), inputCall'.text))
            => inputStorage' = inputStorage]_vars

\* " c " was pushed twice on an empty history: one "c" is stored
C34_Witness ==
    /\ inputCall = [op |-> "push", text |-> " c ", result |-> Undef]
    /\ pushed = <<"c", "c">>
    /\ loadHistory(inputStorage) = <<"c">>

\* C36: the navigation index is -1 or an index of the stored history, and what
\* up and down return is null, the entry the index now stands on, or (down
\* back at the draft position) the draft.
C36_IndexValid ==
    LET entries == loadHistory(inputStorage)
    IN  /\ indexRef = -1 \/ indexRef + 1 \in DOMAIN entries
        /\ inputCall.op = "up" /\ inputCall.result # Null
            => indexRef + 1 \in DOMAIN entries /\ inputCall.result = Str(entries[indexRef + 1])
        /\ inputCall.op = "down" /\ inputCall.result # Null
            => \/ indexRef = -1 /\ inputCall.result = Str(browseText)
               \/ indexRef + 1 \in DOMAIN entries /\ inputCall.result = Str(entries[indexRef + 1])

\* down was called on the newest of 50 entries after a push had been made
\* while browsing: the index is back at -1
C36_Witness ==
    /\ Len(loadHistory(inputStorage)) = MAX_HISTORY
    /\ pushes > 0
    /\ inputCall.op = "down"
    /\ inputCall.result = Str("d")
    /\ indexRef = -1

\* up was called on the oldest of 50 entries: the index stays on it
C36_WitnessOldest ==
    /\ Len(loadHistory(inputStorage)) = MAX_HISTORY
    /\ inputCall.op = "up"
    /\ inputCall.result = Null
    /\ indexRef = 0

\* the hook after k more calls of up, made half by half (the comparison has
\* the first half computed before the second is begun)
RECURSIVE applyUps(_, _, _)
applyUps(hook, k, currentText) ==
    IF k = 0 THEN hook
    ELSE IF k = 1 THEN up(hook, currentText).hook
    ELSE LET half == applyUps(hook, k \div 2, currentText)
         IN  IF half = half THEN applyUps(half, k - (k \div 2), currentText) ELSE half

\* the hook after k calls of down, made half by half
RECURSIVE applyDowns(_, _)
applyDowns(hook, k) ==
    IF k = 0 THEN hook
    ELSE IF k = 1 THEN down(hook).hook
    ELSE LET half == applyDowns(hook, k \div 2)
         IN  IF half = half THEN applyDowns(half, k - (k \div 2)) ELSE half

\* the hook after k calls of up (k >= 1), the first with the text given and
\* the later ones with another text
upTimes(hook, k, text, later) ==
    LET first == up(hook, text).hook
    IN  IF first = first THEN applyUps(first, k - 1, later) ELSE first

\* the hook and the last result after k calls of down (k >= 1)
downTimes(hook, k) ==
    LET before == applyDowns(hook, k - 1)
    IN  IF before = before THEN down(before) ELSE down(hook)

\* C35: from the draft position of a history of n entries, k calls of up
\* (1 <= k <= n), the first with text T, followed by k calls of down end at
\* the draft position, and the last down returns T.
C35_UpsThenDowns ==
    indexRef = -1 =>
        \A k \in 1..Len(loadHistory(inputStorage)) : \A text \in CurrentTexts :
            \A later \in CurrentTexts :
                \E browsing \in {upTimes(Hook, k, text, later)} :
                \E r \in {downTimes(browsing, k)} :
                    /\ r.hook.index = -1
                    /\ r.result = Str(text)

\* two calls of up, the first with "d", and two calls of down were made on a
\* history of 49 entries after a push: the last down returned "d"
C35_Witness ==
    /\ Len(loadHistory(inputStorage)) = MAX_HISTORY - 1
    /\ pushes > 0
    /\ inputCall = [op |-> "down", text |-> "", result |-> Str("d")]
    /\ browseText = "d"
    /\ indexRef = -1

\* C33: an exec-command end notification that reports exit code 0 yields one
\* exec_command_end event whose exit_code is 0, in either protocol shape.
C33_ZeroExitKept ==
    (Handled(lastCall) /\ lastCall.d.op = "exec_end" /\ lastCall.d.exit = Num(0)) =>
        /\ Len(lastEvents) = 1
        /\ lastEvents[1]["type"] = Str("exec_command_end")
        /\ "exit_code" \in DOMAIN lastEvents[1]
        /\ lastEvents[1]["exit_code"] = Num(0)

\* the legacy end of a command begun before, with exit code 0
C33_Witness ==
    /\ Handled(lastCall)
    /\ lastCall.shape = "legacy"
    /\ lastCall.d.op = "exec_end"
    /\ lastCall.d.exit = Num(0)
    /\ inOpen["exec"]["c1"] = 0
    /\ inputOrdered
    /\ lastEvents[1]["exit_code"] = Num(0)

\* the structured end of a command, with exit code 0
C33_WitnessStructured ==
    /\ Handled(lastCall)
    /\ lastCall.shape = "structured"
    /\ lastCall.d.op = "exec_end"
    /\ lastCall.d.exit = Num(0)
    /\ lastEvents[1]["exit_code"] = Num(0)

\* the changes field of a patch begin as the sentence words it: a list is
\* folded into a mapping from each extractable path to its record, a mapping
\* is kept, and there is no field when no path can be extracted or the value
\* is neither
ChangesAsStated(value) ==
    IF value.k = "array"
    THEN LET changes == foldChanges(value.v, EmptyObj)
         IN  IF DOMAIN changes # {} THEN "changes" :> Obj(changes) ELSE EmptyObj
    ELSE IF value.k = "object" THEN "changes" :> value
    ELSE EmptyObj

\* the call just made was a patch begin, and its event and the meta stored
\* carry the changes field given
BeginCarries(changes) ==
    /\ lastEvents' = <<Spread(Spread(Ev("patch_apply_begin"), "call_id" :> Str("c1")), changes)>>
    /\ fileChangeMeta'["c1"] = changes

\* C31: the begin event of a patch and the meta stored for it carry the
\* changes as a mapping from each extractable path to its record when they
\* were given as a list, unchanged when they were given as a mapping, and
\* carry no changes field when no path can be extracted from the list or
\* the value is neither a list nor a mapping.
C31_ChangesByPath ==
    [][(lastCall'.op = "form" /\ lastCall'.form.kind = "changes")
            => BeginCarries(ChangesAsStated(lastCall'.form.changes))]_vars

\* the same for the values that are not lists
C31_ChangesButLists ==
    [][(lastCall'.op = "form" /\ lastCall'.form.kind = "changes"
            /\ lastCall'.form.changes.k # "array")
            => BeginCarries(ChangesAsStated(lastCall'.form.changes))]_vars

\* a list is passed on as it was given
C31_ListsUnchanged ==
    [][(lastCall'.op = "form" /\ lastCall'.form.kind = "changes"
            /\ lastCall'.form.changes.k = "array")
            => BeginCarries("changes" :> lastCall'.form.changes)]_vars

\* every item that was sent a delta under its id has had its completed/end
\* notification since, and every begin received has been followed by its end
AllCompleted ==
    /\ \A kind \in DOMAIN pending : DOMAIN pending[kind] = {}
    /\ inputOrdered
    /\ inOpen = NoneOpen

\* C32: once every item or call that received a begin or a delta has
\* received its completed/end notification, the five maps are empty, deltas
\* that carried no item id included.
C32_NothingLeftBehind ==
    AllCompleted =>
        /\ DOMAIN agentMessageBuffers = {}
        /\ DOMAIN reasoningBuffers = {}
        /\ DOMAIN commandOutputBuffers = {}
        /\ DOMAIN commandMeta = {}
        /\ DOMAIN fileChangeMeta = {}

\* the same, the entry that reasoning deltas without an item id accumulate
\* under left aside
C32_NothingButUnaddressed ==
    AllCompleted =>
        /\ DOMAIN agentMessageBuffers = {}
        /\ DOMAIN reasoningBuffers \subseteq {"reasoning"}
        /\ DOMAIN commandOutputBuffers = {}
        /\ DOMAIN commandMeta = {}
        /\ DOMAIN fileChangeMeta = {}

\* begins, deltas and their ends were received, and the maps are empty
C32_Completed ==
    /\ AllCompleted
    /\ steps = MaxSteps
    /\ Handled(lastCall)
    /\ lastCall.d.op \in {"exec_end", "agent_done", "reasoning_done"}
    /\ lastEvents # <<>>
    /\ "output" \in DOMAIN lastEvents[1] \/ "message" \in DOMAIN lastEvents[1]
    /\ DOMAIN reasoningBuffers = {}

(***************************************************************************)
(* FileBrowser (web/src/components/FileBrowser.tsx).                       *)
(*                                                                         *)
(* Every handler runs on the state of the last render.  loadDirectory runs *)
(* up to its await when it is called and resumes when its own request is   *)
(* answered; requests are answered in any order.  The machine's file       *)
(* system is a fixed tree: the home directory /h holds the directories     *)
(* .git, a and b and the file f; a is empty, .git is refused by the        *)
(* machine, and the request for b is rejected.  Of the keys handleKeyDown  *)
(* knows, Backspace and Escape are left out (they go up and close).        *)
(***************************************************************************)
MaxLoads == 3

Home ==
    <<[name |-> ".git", type |-> "directory"], [name |-> "a", type |-> "directory"],
      [name |-> "b", type |-> "directory"], [name |-> "f", type |-> "file"]>>

\* api.browseDirectory(machineId, path): the answer, or the rejection
browseDirectory(path) ==
    CASE path = "" ->
            [threw |-> FALSE, success |-> TRUE, entries |-> Arr(Home), currentPath |-> Str("/h"),
             error |-> Undef]
      [] path = "/h" ->
            [threw |-> FALSE, success |-> TRUE, entries |-> Arr(Home), currentPath |-> Undef,
             error |-> Undef]
      [] path = "/h/a" ->
            [threw |-> FALSE, success |-> TRUE, entries |-> Arr(<<>>), currentPath |-> Str("/h/a"),
             error |-> Undef]
      [] path = "/h/.git" ->
            [threw |-> FALSE, success |-> FALSE, entries |-> Undef, currentPath |-> Undef,
             error |-> Str("denied")]
      [] OTHER ->
            [threw |-> TRUE, success |-> FALSE, entries |-> Undef, currentPath |-> Undef,
             error |-> Str("network")]

\* entry.name.startsWith('.') on the names of the tree
startsWithDot(name) == name = ".git"

\* currentPath.includes('\\') ? '\\' : '/' on the paths of the tree
separator(path) == "/"

filteredEntries(entries, hidden) ==
    IF hidden THEN entries ELSE SelectSeq(entries, LAMBDA entry : ~startsWithDot(entry.name))

\* the component's state as one record
Browser ==
    [currentPath |-> currentPath, entries |-> dirEntries, isLoading |-> isLoading,
     error |-> loadError, showHidden |-> showHidden, selectedIndex |-> selectedIndex,
     outstanding |-> outstanding]

\* loadDirectory up to its await: the request is sent
loadDirectory(b, id, path) ==
    [b EXCEPT !.isLoading = TRUE, !.error = Null, !.selectedIndex = -1,
              !.outstanding = Append(@, [id |-> id, path |-> path])]

\* loadDirectory from its await on: the answer of its request is taken
loadDirectoryResumed(b, request, result) ==
    LET taken ==
            IF result.threw THEN [b EXCEPT !.error = result.error, !.entries = <<>>]
            ELSE IF result.success /\ result.entries.k = "array"
            THEN [b EXCEPT !.entries = result.entries.v,
                           !.currentPath = Q(result.currentPath, Str(request.path)).v]
            ELSE [b EXCEPT !.error = Q(result.error, Str("loadFailed")), !.entries = <<>>]
    IN  [taken EXCEPT !.isLoading = FALSE]

handleEntryClick(b, id, entry) ==
    IF entry.type = "directory"
    THEN loadDirectory(b, id, IF b.currentPath # ""
                              THEN b.currentPath \o separator(b.currentPath) \o entry.name
                              ELSE entry.name)
    ELSE b

\* handleKeyDown: the state after the key, and the entry passed to
\* handleEntryClick if there was one
handleKeyDown(b, id, key) ==
    LET shown == filteredEntries(b.entries, b.showHidden)
        prev == b.selectedIndex
    IN  IF b.isLoading THEN [browser |-> b, opened |-> Null]
        ELSE CASE key = "ArrowDown" ->
                    [browser |-> [b EXCEPT !.selectedIndex = IF prev < Len(shown) - 1 THEN prev + 1 ELSE prev],
                     opened |-> Null]
               [] key = "ArrowUp" ->
                    [browser |-> [b EXCEPT !.selectedIndex = IF prev > 0 THEN prev - 1 ELSE 0],
                     opened |-> Null]
               [] key = "Enter" ->
                    IF prev >= 0 /\ prev < Len(shown)
                    THEN [browser |-> handleEntryClick(b, id, shown[prev + 1]), opened |-> shown[prev + 1]]
                    ELSE [browser |-> b, opened |-> Null]
               [] OTHER -> [browser |-> b, opened |-> Null]

Keys == {"ArrowDown", "ArrowUp", "Enter", "Tab"}

\* the values of initialPath
InitialPaths == {"", "/h/a"}

BrowserInit ==
    /\ NewConverter
    /\ LoopOff
    /\ PumpOff
    /\ PairOff
    /\ InputOff
    /\ currentPath \in InitialPaths
    /\ dirEntries = <<>>
    /\ isLoading = FALSE
    /\ loadError = Null
    /\ showHidden = FALSE
    /\ selectedIndex = -1
    /\ outstanding = <<>>
    /\ loads = 0
    /\ lastRequested = ""
    /\ browserCall = [op |-> "none", opened |-> Null, id |-> 0]

\* the state cells take the values of b, and the observer counts the request
\* if one was sent
Rendered(b) ==
    /\ Len(b.outstanding) > Len(outstanding) => loads < MaxLoads
    /\ currentPath' = b.currentPath
    /\ dirEntries' = b.entries
    /\ isLoading' = b.isLoading
    /\ loadError' = b.error
    /\ showHidden' = b.showHidden
    /\ selectedIndex' = b.selectedIndex
    /\ outstanding' = b.outstanding
    /\ loads' = IF Len(b.outstanding) > Len(outstanding) THEN loads + 1 ELSE loads
    /\ lastRequested' = IF Len(b.outstanding) > Len(outstanding)
                        THEN b.outstanding[Len(b.outstanding)].path ELSE lastRequested

\* the dialog is opened: the effect loads initialPath ?? ''
Open ==
    /\ loads = 0
    /\ Rendered(loadDirectory(Browser, loads + 1, currentPath))
    /\ browserCall' = [op |-> "open", opened |-> Null, id |-> loads + 1]
    /\ UNCHANGED besidesBrowser

GoHome ==
    /\ loads > 0
    /\ Rendered(loadDirectory(Browser, loads + 1, ""))
    /\ browserCall' = [op |-> "handleGoHome", opened |-> Null, id |-> loads + 1]
    /\ UNCHANGED besidesBrowser

Refresh ==
    /\ loads > 0
    /\ Rendered(loadDirectory(Browser, loads + 1, currentPath))
    /\ browserCall' = [op |-> "handleRefresh", opened |-> Null, id |-> loads + 1]
    /\ UNCHANGED besidesBrowser

\* the eye button
ToggleHidden ==
    /\ loads > 0
    /\ Rendered([Browser EXCEPT !.showHidden = ~showHidden])
    /\ browserCall' = [op |-> "setShowHidden", opened |-> Null, id |-> 0]
    /\ UNCHANGED besidesBrowser

\* a click on the entry shown at position i of the list
EntryClick(i) ==
    /\ loads > 0
    /\ ~isLoading
    /\ loadError = Null
    /\ i \in DOMAIN filteredEntries(dirEntries, showHidden)
    /\ \E entry \in {filteredEntries(dirEntries, showHidden)[i]} :
       \E b \in {handleEntryClick([Browser EXCEPT !.selectedIndex = i - 1], loads + 1, entry)} :
            /\ Rendered(b)
            /\ browserCall' = [op |-> "onClick", opened |-> entry,
                               id |-> IF Len(b.outstanding) > Len(outstanding) THEN loads + 1 ELSE 0]
    /\ UNCHANGED besidesBrowser

KeyDown(key) ==
    /\ loads > 0
    /\ \E r \in {handleKeyDown(Browser, loads + 1, key)} :
            /\ Rendered(r.browser)
            /\ browserCall' = [op |-> key, opened |-> r.opened,
                               id |-> IF Len(r.browser.outstanding) > Len(outstanding)
                                      THEN loads + 1 ELSE 0]
    /\ UNCHANGED besidesBrowser

\* the drop of position i from a sequence
Without(requests, i) == SubSeq(requests, 1, i - 1) \o SubSeq(requests, i + 1, Len(requests))

\* the request at position i of those outstanding is answered
Answered(i) ==
    /\ i \in DOMAIN outstanding
    /\ Rendered(loadDirectoryResumed([Browser EXCEPT !.outstanding = Without(@, i)], outstanding[i],
                                     browseDirectory(outstanding[i].path)))
    /\ browserCall' = [op |-> "answered", opened |-> Null, id |-> outstanding[i].id]
    /\ UNCHANGED besidesBrowser

BrowserNext ==
    \/ Open
    \/ GoHome
    \/ Refresh
    \/ ToggleHidden
    \/ \E i \in 1..Len(Home) : EntryClick(i)
    \/ \E key \in Keys : KeyDown(key)
    \/ \E i \in 1..MaxLoads : Answered(i)

BrowserSpec == BrowserInit /\ [][BrowserNext]_vars

\* the entries the list shows
Displayed == filteredEntries(dirEntries, showHidden)

\* selectedIndex is -1 or an index of the entries shown
SelectionValid == selectedIndex = -1 \/ selectedIndex + 1 \in DOMAIN Displayed

\* Enter passed an entry to handleEntryClick only from a selectedIndex that
\* was an index of the entries shown, and the entry is the one shown there
EnterOnlyValid ==
    (browserCall'.op = "Enter" /\ browserCall'.opened # Null) =>
        /\ selectedIndex + 1 \in DOMAIN Displayed
        /\ browserCall'.opened = Displayed[selectedIndex + 1]

\* C37: selectedIndex is -1 or a valid index of the entries displayed, after
\* every sequence of directory loads, hidden-file toggles and arrow keys,
\* and Enter opens an entry only when selectedIndex is such an index.
C37_SelectionValid == []SelectionValid /\ [][EnterOnlyValid]_vars

\* the second half alone
C37_EnterOnlyValid == [][EnterOnlyValid]_vars

\* Enter on a selected directory sent the request for it
C37_EnterOpened ==
    /\ browserCall.op = "Enter"
    /\ browserCall.opened = [name |-> "a", type |-> "directory"]
    /\ lastRequested = "/h/a"
    /\ isLoading

\* the entries, the path and the error are those the answer to the request
\* for path gives
AnswerOf(path, entries, shownPath, error) ==
    LET result == browseDirectory(path)
    IN  IF ~result.threw /\ result.success /\ result.entries.k = "array"
        THEN /\ entries = result.entries.v
             /\ shownPath = Q(result.currentPath, Str(path)).v
        ELSE /\ entries = <<>>
             /\ error # Null

\* what the list and the path show is the answer to the request for path
Shows(path) == AnswerOf(path, dirEntries, currentPath, loadError)

\* C38: once every loadDirectory request has been answered, in whatever
\* order, the entries and currentPath displayed are those of the directory
\* requested last, and isLoading is true as long as a request is outstanding.
C38_LatestShown ==
    /\ (loads > 0 /\ outstanding = <<>>) => Shows(lastRequested)
    /\ outstanding # <<>> => isLoading

\* the first half alone, and the second
C38_LatestShownAtRest == (loads > 0 /\ outstanding = <<>>) => Shows(lastRequested)
C38_LoadingWhileOutstanding == outstanding # <<>> => isLoading

\* the answer taken last is shown, and isLoading is false once an answer
\* has been taken until the next request
C38_LastAnswerShown ==
    [][browserCall'.op = "answered" =>
            /\ \E i \in DOMAIN outstanding :
                    /\ outstanding[i].id = browserCall'.id
                    /\ AnswerOf(outstanding[i].path, dirEntries', currentPath', loadError')
            /\ ~isLoading']_vars

\* a request answered while no other is outstanding is the one shown
C38_OneAtATime ==
    [][(browserCall'.op = "answered" /\ Len(outstanding) = 1 /\ outstanding[1].id = loads)
            => (AnswerOf(lastRequested, dirEntries', currentPath', loadError') /\ ~isLoading')]_vars

\* ArrowUp in an empty directory, after one load that was answered: the
\* index is 0 and nothing is shown
C37_ArrowUpOnEmpty ==
    /\ loads = 1
    /\ outstanding = <<>>
    /\ browserCall.op = "ArrowUp"
    /\ Displayed = <<>>
    /\ selectedIndex = 0

\* the hidden entries were shown, the last entry selected and the hidden
\* entries hidden again, after one load: the index is past the entries shown
C37_StaleAfterToggle ==
    /\ loads = 1
    /\ outstanding = <<>>
    /\ browserCall.op = "setShowHidden"
    /\ ~showHidden
    /\ selectedIndex = Len(Displayed)
====
